---------------------------- MODULE Spec2Model ----------------------------
(***************************************************************************)
(* A model of the scoring engine of audit-ai                               *)
(* (auditai-backend/app/services/scoring.py) and of its callers.           *)
(*                                                                         *)
(* Representation.                                                         *)
(*   - A Python str is a sequence of one-character strings, so that        *)
(*     str.lower and str.strip are computed and not assumed.               *)
(*   - A DataFrame is [columns |-> sequence of column names,               *)
(*     rows |-> sequence of rows]; a row is a sequence of cells aligned    *)
(*     with columns.                                                       *)
(*   - A cell is [k, s, v]: k = "str" (text s), "int" or "float" (the      *)
(*     number v/100), or "nan" (a missing value).                          *)
(*   - A float result is NaN or an integer number of millionths (Fx):      *)
(*     float64 arithmetic is modelled as fixed point with 6 decimals.      *)
(*     Comparisons of data against thresholds are done exactly on          *)
(*     integers.                                                           *)
(***************************************************************************)
EXTENDS Integers, Sequences, FiniteSets, TLC

\* A Python assignment x = e: e is evaluated once and Body sees its value
Bind(e, Body(_)) == CHOOSE v \in {Body(x) : x \in {e}} : TRUE

\* min(S) and max(S) of a non-empty set of integers
MinOf(S) == CHOOSE i \in S : \A j \in S : i <= j
MaxOf(S) == CHOOSE i \in S : \A j \in S : j <= i


---------------------------------------------------------------------------
(* Python str                                                              *)

UpperToLower ==
  ("A" :> "a") @@ ("B" :> "b") @@ ("C" :> "c") @@ ("D" :> "d") @@
  ("E" :> "e") @@ ("F" :> "f") @@ ("G" :> "g") @@ ("H" :> "h") @@
  ("I" :> "i") @@ ("J" :> "j") @@ ("K" :> "k") @@ ("L" :> "l") @@
  ("M" :> "m") @@ ("N" :> "n") @@ ("O" :> "o") @@ ("P" :> "p") @@
  ("Q" :> "q") @@ ("R" :> "r") @@ ("S" :> "s") @@ ("T" :> "t") @@
  ("U" :> "u") @@ ("V" :> "v") @@ ("W" :> "w") @@ ("X" :> "x") @@
  ("Y" :> "y") @@ ("Z" :> "z")

\* str.lower()
Lower(s) ==
  [i \in 1..Len(s) |-> IF s[i] \in DOMAIN UpperToLower THEN UpperToLower[s[i]] ELSE s[i]]

Whitespace == {" ", "\t", "\n", "\r"}

\* str.strip(): drops the leading and the trailing whitespace
Strip(s) ==
  Bind({i \in 1..Len(s) : s[i] \notin Whitespace}, LAMBDA keep :
    IF keep = {} THEN <<>> ELSE SubSeq(s, MinOf(keep), MaxOf(keep)))

DigitValue ==
  ("0" :> 0) @@ ("1" :> 1) @@ ("2" :> 2) @@ ("3" :> 3) @@ ("4" :> 4) @@
  ("5" :> 5) @@ ("6" :> 6) @@ ("7" :> 7) @@ ("8" :> 8) @@ ("9" :> 9)

DigitChar == <<"0", "1", "2", "3", "4", "5", "6", "7", "8", "9">>

\* str(n) of a non-negative int
RECURSIVE NatToStr(_)
NatToStr(n) ==
  IF n < 10 THEN <<DigitChar[n + 1]>>
  ELSE NatToStr(n \div 10) \o <<DigitChar[(n % 10) + 1]>>

\* the value of a non-empty run of decimal digits
RECURSIVE DigitsValue(_, _)
DigitsValue(s, n) ==
  IF n = 0 THEN 0 ELSE 10 * DigitsValue(s, n - 1) + DigitValue[s[n]]

DigitsToNat(s) == DigitsValue(s, Len(s))

IsDigits(s) == \A i \in 1..Len(s) : s[i] \in DOMAIN DigitValue

---------------------------------------------------------------------------
(* Cells                                                                   *)

StrCell(s)   == [k |-> "str",   s |-> s,    v |-> 0]
IntCell(n)   == [k |-> "int",   s |-> <<>>, v |-> 100 * n]
FloatCell(h) == [k |-> "float", s |-> <<>>, v |-> h]
NanCell      == [k |-> "nan",   s |-> <<>>, v |-> 0]

\* repr of the float h/100 (|h| has at most two decimals)
FloatToStr(h) ==
  LET a    == IF h < 0 THEN -h ELSE h
      sign == IF h < 0 THEN <<"-">> ELSE <<>>
      frac == a % 100
      fs   == IF frac % 10 = 0 THEN <<DigitChar[(frac \div 10) + 1]>>
              ELSE <<DigitChar[(frac \div 10) + 1], DigitChar[(frac % 10) + 1]>>
  IN  sign \o NatToStr(a \div 100) \o <<".">> \o fs

\* Series.astype(str), one cell: a missing value becomes the text "nan"
AsStr(c) ==
  CASE c.k = "str"   -> c.s
    [] c.k = "nan"   -> <<"n", "a", "n">>
    [] c.k = "int"   -> (IF c.v < 0 THEN <<"-">> ELSE <<>>)
                          \o NatToStr((IF c.v < 0 THEN -c.v ELSE c.v) \div 100)
    [] c.k = "float" -> FloatToStr(c.v)

\* The number a text parses to under pd.to_numeric, in hundredths:
\* [sign] digits [. digits], surrounding whitespace allowed; the cells of
\* the datasets below carry at most two decimals.
ParseNum(s) ==
  Bind(Strip(s), LAMBDA t :
  Bind(IF Len(t) > 0 /\ t[1] \in {"-", "+"} THEN SubSeq(t, 2, Len(t)) ELSE t, LAMBDA u :
  Bind({i \in 1..Len(u) : u[i] = "."}, LAMBDA dots :
  Bind(IF dots = {} THEN u ELSE SubSeq(u, 1, MinOf(dots) - 1), LAMBDA ip :
  Bind(IF dots = {} THEN <<>> ELSE SubSeq(u, MinOf(dots) + 1, Len(u)), LAMBDA fp :
    LET neg == Len(t) > 0 /\ t[1] = "-"
        ok  == /\ Cardinality(dots) <= 1
               /\ IsDigits(ip) /\ IsDigits(fp)
               /\ Len(ip) + Len(fp) > 0
               /\ Len(fp) <= 2
        fv  == IF Len(fp) = 0 THEN 0
               ELSE IF Len(fp) = 1 THEN 10 * DigitsToNat(fp)
               ELSE DigitsToNat(fp)
    IN  IF ok
        THEN Bind(100 * DigitsToNat(ip) + fv, LAMBDA mag :
               [ok |-> TRUE, v |-> IF neg THEN -mag ELSE mag])
        ELSE [ok |-> FALSE, v |-> 0])))))

\* pd.to_numeric(series, errors="coerce").dropna(): the parseable values of
\* col[lo..hi], in row order, in hundredths (the range is halved, so that
\* the depth of the evaluation grows with the logarithm of the row count)
RECURSIVE NumericBetween(_, _, _)
NumericBetween(col, lo, hi) ==
  IF lo > hi THEN <<>>
  ELSE IF lo = hi
  THEN Bind(col[lo], LAMBDA c :
         CASE c.k \in {"int", "float"} -> <<c.v>>
           [] c.k = "nan"              -> <<>>
           [] c.k = "str"              ->
                Bind(ParseNum(c.s), LAMBDA p : IF p.ok THEN <<p.v>> ELSE <<>>))
  ELSE NumericBetween(col, lo, (lo + hi) \div 2)
         \o NumericBetween(col, ((lo + hi) \div 2) + 1, hi)

\* A faulty variant of the conversion: the cells that are missing or do
\* not parse count as 0 (fillna(0) in the place of dropna())
ToNumericFillna(col) ==
  [r \in 1..Len(col) |->
     Bind(NumericBetween(col, r, r), LAMBDA v : IF Len(v) = 0 THEN 0 ELSE v[1])]

\* pd.to_numeric(col, errors="coerce").dropna()
ToNumericDropna(col) == Bind(col, LAMBDA c : NumericBetween(c, 1, Len(c)))

---------------------------------------------------------------------------
(* Column aliases, scoring.py:29-35                                        *)

DECISION_COLS ==
  << <<"d", "e", "c", "i", "s", "i", "o", "n">>,
     <<"p", "r", "e", "d", "i", "c", "t", "i", "o", "n">>,
     <<"m", "o", "d", "e", "l", "_", "d", "e", "c", "i", "s", "i", "o", "n">>,
     <<"o", "u", "t", "p", "u", "t">>,
     <<"l", "a", "b", "e", "l">> >>
CONFIDENCE_COLS ==
  << <<"c", "o", "n", "f", "i", "d", "e", "n", "c", "e">>,
     <<"s", "c", "o", "r", "e">>,
     <<"p", "r", "o", "b", "a", "b", "i", "l", "i", "t", "y">>,
     <<"m", "o", "d", "e", "l", "_", "c", "o", "n", "f", "i", "d", "e", "n", "c", "e">>,
     <<"p", "r", "o", "b">> >>
GROUND_TRUTH_COLS ==
  << <<"g", "r", "o", "u", "n", "d", "_", "t", "r", "u", "t", "h">>,
     <<"t", "r", "u", "e", "_", "l", "a", "b", "e", "l">>,
     <<"a", "c", "t", "u", "a", "l">>,
     <<"e", "x", "p", "e", "c", "t", "e", "d">>,
     <<"c", "o", "r", "r", "e", "c", "t">> >>
TEXT_OUTPUT_COLS ==
  << <<"r", "e", "s", "p", "o", "n", "s", "e">>,
     <<"o", "u", "t", "p", "u", "t", "_", "t", "e", "x", "t">>,
     <<"g", "e", "n", "e", "r", "a", "t", "e", "d", "_", "t", "e", "x", "t">>,
     <<"a", "n", "s", "w", "e", "r">>,
     <<"t", "e", "x", "t">>,
     <<"m", "o", "d", "e", "l", "_", "r", "e", "s", "p", "o", "n", "s", "e">> >>
GENDER_COLS ==
  << <<"g", "e", "n", "d", "e", "r">>,
     <<"s", "e", "x">>,
     <<"u", "s", "e", "r", "_", "g", "e", "n", "d", "e", "r">> >>
RACE_COLS ==
  << <<"r", "a", "c", "e">>,
     <<"e", "t", "h", "n", "i", "c", "i", "t", "y">>,
     <<"u", "s", "e", "r", "_", "r", "a", "c", "e">>,
     <<"r", "a", "c", "e", "_", "e", "t", "h", "n", "i", "c", "i", "t", "y">> >>
AGE_COLS ==
  << <<"a", "g", "e">>,
     <<"u", "s", "e", "r", "_", "a", "g", "e">>,
     <<"a", "g", "e", "_", "g", "r", "o", "u", "p">> >>
PROMPT_COLS ==
  << <<"p", "r", "o", "m", "p", "t">>,
     <<"i", "n", "p", "u", "t">>,
     <<"q", "u", "e", "r", "y">>,
     <<"q", "u", "e", "s", "t", "i", "o", "n">> >>
EXPLANATION_COLS ==
  << <<"e", "x", "p", "l", "a", "n", "a", "t", "i", "o", "n">>,
     <<"r", "e", "a", "s", "o", "n", "i", "n", "g">>,
     <<"r", "e", "a", "s", "o", "n">>,
     <<"s", "h", "a", "p", "_", "v", "a", "l", "u", "e">>,
     <<"f", "e", "a", "t", "u", "r", "e", "_", "i", "m", "p", "o", "r", "t", "a", "n", "c", "e">> >>

---------------------------------------------------------------------------
(* DataFrame access and the column resolver                                *)

\* Python's None, and every falsy column name: no alias is empty, so
\* _find_col never returns the empty name for a column
None == <<>>

\* len(df)
NRows(d) == Len(d.rows)

\* df[col]: the cells of the column named col, in row order
ColumnOf(d, col) ==
  LET i == CHOOSE j \in 1..Len(d.columns) : d.columns[j] = col
  IN  [r \in 1..Len(d.rows) |-> d.rows[r][i]]

\* {c.lower(): c for c in df.columns}: of several columns with one
\* lowercase form the dict keeps the last
lower_cols(columns) ==
  [l \in {Lower(columns[i]) : i \in 1..Len(columns)} |->
     columns[CHOOSE i \in 1..Len(columns) :
               /\ Lower(columns[i]) = l
               /\ \A j \in 1..Len(columns) : Lower(columns[j]) = l => j <= i]]

\* A faulty variant of the resolver: the first column stands in when no
\* candidate matches
find_in_or_first(columns, candidates) ==
  Bind(lower_cols(columns), LAMBDA lc :
  Bind({i \in 1..Len(candidates) : Lower(candidates[i]) \in DOMAIN lc}, LAMBDA hits :
    IF hits = {} THEN columns[1] ELSE lc[Lower(candidates[MinOf(hits)])]))

\* _find_col on a column index: the loop over the candidates
find_in(columns, candidates) ==
  Bind(lower_cols(columns), LAMBDA lc :
  Bind({i \in 1..Len(candidates) : Lower(candidates[i]) \in DOMAIN lc}, LAMBDA hits :
    IF hits = {} THEN None ELSE lc[Lower(candidates[MinOf(hits)])]))

_find_col(d, candidates) == find_in(d.columns, candidates)

---------------------------------------------------------------------------
(* Floats                                                                  *)

\* 1.0 in fixed point
One == 1000 * 1000

Fx(x) == [nan |-> FALSE, x |-> x]
NaN   == [nan |-> TRUE,  x |-> 0]

\* Python's builtin min(a, b): b if b < a, else a; a comparison with NaN
\* is False, so min(nan, b) is nan
PyMin(a, b) == IF ~a.nan /\ ~b.nan /\ b.x < a.x THEN b ELSE a

Abs(i) == IF i < 0 THEN -i ELSE i

\* k / n to the nearest millionth (k >= 0); 0 / 0 is NaN
Frac(k, n) == IF n = 0 THEN NaN ELSE Fx((2 * k * One + n) \div (2 * n))

\* a * k and a / k for a float a and a positive integer constant k
Times(a, k) == IF a.nan THEN NaN ELSE Fx(a.x * k)
Over(a, k)  == IF a.nan THEN NaN ELSE Fx((2 * a.x + k) \div (2 * k))
Plus(a, b)  == IF a.nan \/ b.nan THEN NaN ELSE Fx(a.x + b.x)

\* the product of two fixed-point numbers, computed in parts so that no
\* intermediate value leaves 32 bits
MulFx(a, b) ==
  LET sgn == IF (a < 0) = (b < 0) THEN 1 ELSE -1
      ah  == Abs(a) \div 1000
      al  == Abs(a) % 1000
      bh  == Abs(b) \div 1000
      bl  == Abs(b) % 1000
  IN  sgn * (ah * bh + (ah * bl + al * bh + (al * bl) \div 1000) \div 1000)

\* s[lo] + ... + s[hi]
RECURSIVE SumBetween(_, _, _)
SumBetween(s, lo, hi) ==
  IF lo > hi THEN 0
  ELSE IF lo = hi THEN s[lo]
  ELSE SumBetween(s, lo, (lo + hi) \div 2) + SumBetween(s, ((lo + hi) \div 2) + 1, hi)

SumSeq(s) == SumBetween(s, 1, Len(s))

\* np.mean of a list of floats
MeanOf(s) ==
  IF \E i \in 1..Len(s) : s[i].nan THEN NaN
  ELSE Fx((2 * SumSeq([i \in 1..Len(s) |-> s[i].x]) + Len(s)) \div (2 * Len(s)))

RECURSIVE Gcd(_, _)
Gcd(a, b) == IF b = 0 THEN a ELSE Bind(a % b, LAMBDA r : Gcd(b, r))

\* the gcd of |s[lo]|, ..., |s[hi]|
RECURSIVE GcdBetween(_, _, _)
GcdBetween(s, lo, hi) ==
  IF lo > hi THEN 0
  ELSE IF lo = hi THEN Abs(s[lo])
  ELSE Bind(GcdBetween(s, lo, (lo + hi) \div 2), LAMBDA a :
       Bind(GcdBetween(s, ((lo + hi) \div 2) + 1, hi), LAMBDA b :
         Gcd(a, b)))

GcdSeq(s) == GcdBetween(s, 1, Len(s))

\* floor(sqrt(n))
RECURSIVE ISqrt(_)
ISqrt(n) ==
  IF n < 2 THEN n
  ELSE Bind(2 * ISqrt(n \div 4), LAMBDA s :
         IF (s + 1) * (s + 1) <= n THEN s + 1 ELSE s)

\* One more decimal digit of a square root: r = floor(sqrt(X)), R = X - r*r,
\* t the remainder of the long division w / m so far
RECURSIVE SqrtDigits(_, _, _, _, _)
SqrtDigits(r, R, t, m, digits) ==
  IF digits = 0 THEN r
  ELSE Bind(100 * R + (100 * t) \div m, LAMBDA target :
       Bind(MaxOf({x \in 0..9 : (20 * r + x) * x <= target}), LAMBDA e :
       Bind(<<10 * r + e, target - (20 * r + e) * e, (100 * t) % m>>, LAMBDA nx :
         SqrtDigits(nx[1], nx[2], nx[3], m, digits - 1))))

\* floor(sqrt(w / m) * 10^digits)
SqrtRat(w, m, digits) ==
  Bind(ISqrt(w \div m), LAMBDA r0 :
    SqrtDigits(r0, (w \div m) - r0 * r0, w % m, m, digits))

\* A numeric Series: the values vals[i] / den
Series(vals, den) == [vals |-> vals, den |-> den]

\* conf / 100.0
Div100(c) == [vals |-> c.vals, den |-> c.den * 100]

\* Series.max() > 1.0; the max of an empty Series is NaN and the
\* comparison False
MaxAboveOne(c) == \E i \in 1..Len(c.vals) : c.vals[i] > c.den

\* if conf.max() > 1.0: conf = conf / 100.0
Scaled(raw) == Bind(raw, LAMBDA c : IF MaxAboveOne(c) THEN Div100(c) ELSE c)

\* (conf < p/100).mean() and ((conf > lo/100) & (conf < hi/100)).mean();
\* NaN for an empty Series
FracBelow(c, p) ==
  Frac(Cardinality({i \in 1..Len(c.vals) : 100 * c.vals[i] < p * c.den}), Len(c.vals))
FracBetween(c, lo, hi) ==
  Frac(Cardinality({i \in 1..Len(c.vals) :
                      /\ 100 * c.vals[i] > lo * c.den
                      /\ 100 * c.vals[i] < hi * c.den}), Len(c.vals))

\* Series.std(): the sample standard deviation (ddof = 1), NaN for fewer
\* than two values.  With y = (x - x1) / g for the gcd g of the
\* differences, std = (g / den) * sqrt((n * sum(y^2) - sum(y)^2) / (n (n - 1))).
\* A deviation of StdCap or more is reported as StdCap: every use of std
\* clamps it at 0.5 or below.
StdCap == 4 * One
Std(c) ==
  Bind(Len(c.vals), LAMBDA n :
    IF n < 2 THEN NaN
    ELSE
      Bind([i \in 1..n |-> c.vals[i] - c.vals[1]], LAMBDA dv :
      Bind(GcdSeq(dv), LAMBDA g :
        IF g = 0 THEN Fx(0)
        ELSE
          Bind(SumSeq([i \in 1..n |-> dv[i] \div g]), LAMBDA sy :
          Bind(n * SumSeq([i \in 1..n |-> (dv[i] \div g) * (dv[i] \div g)]) - sy * sy, LAMBDA w :
          Bind(n * (n - 1), LAMBDA m :
            \* std >= 4  <=>  g^2 w >= 16 den^2 m  <=  g * isqrt(w / m) >= 4 den
            IF g * ISqrt(w \div m) >= 4 * c.den THEN Fx(StdCap)
            ELSE Fx((g * SqrtRat(w, m, 4)) \div (c.den \div 100))))))))

---------------------------------------------------------------------------
(* 1. Bias                                                                 *)

\* the confidence column as a numeric Series
Confidence(d, conf_col) == Series(ToNumericDropna(ColumnOf(d, conf_col)), 100)

\* A faulty variant of the normalisation: trimmed, but the case is kept
NormalizedCaseKept(d, col) ==
  [r \in 1..NRows(d) |-> Strip(AsStr(ColumnOf(d, col)[r]))]

\* df[col].astype(str).str.lower().str.strip()
Normalized(d, col) ==
  [r \in 1..NRows(d) |-> Strip(Lower(AsStr(ColumnOf(d, col)[r])))]

positive_terms ==
  { <<"a", "p", "p", "r", "o", "v", "e", "d">>,
    <<"y", "e", "s">>,
    <<"a", "c", "c", "e", "p", "t">>,
    <<"1">>,
    <<"t", "r", "u", "e">>,
    <<"p", "o", "s", "i", "t", "i", "v", "e">>,
    <<"p", "a", "s", "s">> }

\* groups of fewer rows are skipped
MinGroupRows == 5

_fallback_bias(d) ==
  Bind(_find_col(d, CONFIDENCE_COLS), LAMBDA conf_col :
    IF conf_col # None
    THEN Bind(Confidence(d, conf_col), LAMBDA conf :
         Bind(Std(conf), LAMBDA std :
           PyMin(Times(std, 2), Fx(One))))
    ELSE Fx(300000))

\* A faulty variant of group_rates that keeps the tiny groups
GroupRatesAll(d, decision_col, col) ==
  Bind(Normalized(d, decision_col), LAMBDA decisions :
  Bind(Normalized(d, col), LAMBDA groups :
    LET rowsOf(g) == {r \in 1..NRows(d) : groups[r] = g}
    IN  [g \in {groups[r] : r \in 1..NRows(d)} |->
           Frac(Cardinality({r \in rowsOf(g) : decisions[r] \in positive_terms}),
                Cardinality(rowsOf(g))).x]))

\* group_rates of one protected column: the positive rate of every group
\* of at least MinGroupRows rows, as a function group -> rate
GroupRates(d, decision_col, col) ==
  Bind(Normalized(d, decision_col), LAMBDA decisions :
  Bind(Normalized(d, col), LAMBDA groups :
    LET rowsOf(g) == {r \in 1..NRows(d) : groups[r] = g}
        big       == {g \in {groups[r] : r \in 1..NRows(d)} :
                        Cardinality(rowsOf(g)) >= MinGroupRows}
    IN  [g \in big |->
           Frac(Cardinality({r \in rowsOf(g) : decisions[r] \in positive_terms}),
                Cardinality(rowsOf(g))).x]))

\* the gaps list after the loop over the three families (as a sequence in
\* family order)
RECURSIVE BiasGaps(_, _, _)
BiasGaps(d, decision_col, families) ==
  IF Len(families) = 0 THEN <<>>
  ELSE
    Bind(BiasGaps(d, decision_col, Tail(families)), LAMBDA rest :
    Bind(_find_col(d, Head(families)), LAMBDA col :
      IF col = None THEN rest
      ELSE
        Bind(GroupRates(d, decision_col, col), LAMBDA group_rates :
        Bind({group_rates[g] : g \in DOMAIN group_rates}, LAMBDA rates :
          IF Cardinality(DOMAIN group_rates) >= 2
          THEN <<Fx(MaxOf(rates) - MinOf(rates))>> \o rest
          ELSE rest))))

compute_bias_score(d) ==
  Bind(_find_col(d, DECISION_COLS), LAMBDA decision_col :
    IF decision_col = None THEN _fallback_bias(d)
    ELSE
      Bind(BiasGaps(d, decision_col, <<GENDER_COLS, RACE_COLS, AGE_COLS>>), LAMBDA gaps :
        IF Len(gaps) > 0
        THEN Bind(MeanOf(gaps), LAMBDA avg_gap :
               PyMin(Fx((5 * avg_gap.x + 1) \div 2), Fx(One)))
        ELSE _fallback_bias(d)))

---------------------------------------------------------------------------
(* 2. Hallucination                                                        *)

compute_hallucination_score(d) ==
  Bind(_find_col(d, DECISION_COLS), LAMBDA decision_col :
  Bind(_find_col(d, GROUND_TRUTH_COLS), LAMBDA ground_truth_col :
    IF decision_col # None /\ ground_truth_col # None
    THEN
      Bind(Normalized(d, decision_col), LAMBDA predictions :
      Bind(Normalized(d, ground_truth_col), LAMBDA ground_truth :
        Frac(Cardinality({r \in 1..NRows(d) : predictions[r] # ground_truth[r]}),
             NRows(d))))
    ELSE
      Bind(_find_col(d, CONFIDENCE_COLS), LAMBDA conf_col :
        IF conf_col # None
        THEN Bind(Scaled(Confidence(d, conf_col)), LAMBDA conf : FracBelow(conf, 60))
        ELSE Fx(300000))))

---------------------------------------------------------------------------
(* Regular expressions (module re)                                         *)
(* A pattern is a sequence of items: a word boundary, a character class    *)
(* repeated lo..hi times (hi = -1: unbounded), or an alternation of        *)
(* literal words.                                                          *)

Digits       == {"0", "1", "2", "3", "4", "5", "6", "7", "8", "9"}
LowerLetters ==
  {"a", "b", "c", "d", "e", "f", "g", "h", "i", "j", "k", "l", "m", "n", "o", "p", "q", "r", "s", "t", "u", "v", "w", "x", "y", "z"}
UpperLetters ==
  {"A", "B", "C", "D", "E", "F", "G", "H", "I", "J", "K", "L", "M", "N", "O", "P", "Q", "R", "S", "T", "U", "V", "W", "X", "Y", "Z"}
Letters      == LowerLetters \cup UpperLetters
WordChars    == Letters \cup Digits \cup {"_"}

Boundary            == [t |-> "b", set |-> {}, neg |-> FALSE, lo |-> 0, hi |-> 0, words |-> {}]
Class(set, lo, hi)  == [t |-> "c", set |-> set, neg |-> FALSE, lo |-> lo, hi |-> hi, words |-> {}]
NotClass(set, lo, hi) == [t |-> "c", set |-> set, neg |-> TRUE, lo |-> lo, hi |-> hi, words |-> {}]
OneOf(words)        == [t |-> "w", set |-> {}, neg |-> FALSE, lo |-> 0, hi |-> 0, words |-> words]

\* \b before position pos of text (the character at pos, if any, is the next one)
AtBoundary(text, pos) ==
  (pos > 1 /\ text[pos - 1] \in WordChars) # (pos <= Len(text) /\ text[pos] \in WordChars)

\* items k.. of pat match a prefix of text[pos..]
RECURSIVE MatchAt(_, _, _, _)
MatchAt(text, pos, pat, k) ==
  IF k > Len(pat) THEN TRUE
  ELSE LET it == pat[k]
       IN  CASE it.t = "b" -> AtBoundary(text, pos) /\ MatchAt(text, pos, pat, k + 1)
             [] it.t = "w" ->
                  \E w \in it.words :
                    /\ pos + Len(w) - 1 <= Len(text)
                    /\ SubSeq(text, pos, pos + Len(w) - 1) = w
                    /\ MatchAt(text, pos + Len(w), pat, k + 1)
             [] it.t = "c" ->
                  \E n \in it.lo..(IF it.hi < 0 THEN Len(text) ELSE it.hi) :
                    /\ pos + n - 1 <= Len(text)
                    /\ \A i \in pos..(pos + n - 1) : (text[i] \in it.set) # it.neg
                    /\ MatchAt(text, pos + n, pat, k + 1)

\* re.search(pat, text) is not None
Search(pat, text) ==
  Bind(SubSeq(text, 1, Len(text)), LAMBDA t :
    \E pos \in 1..(Len(t) + 1) : MatchAt(t, pos, pat, 1))

\* re.search of an alternation of patterns
SearchAny(pats, text) ==
  Bind(SubSeq(text, 1, Len(text)), LAMBDA t :
    \E i \in 1..Len(pats) : Search(pats[i], t))

---------------------------------------------------------------------------
(* 3. Toxicity                                                             *)

hate_terms ==
  { <<"h", "a", "t", "e">>,
    <<"k", "i", "l", "l">>,
    <<"a", "t", "t", "a", "c", "k">>,
    <<"t", "h", "r", "e", "a", "t">>,
    <<"a", "b", "u", "s", "e">>,
    <<"h", "a", "r", "a", "s", "s">>,
    <<"d", "i", "s", "c", "r", "i", "m", "i", "n", "a", "t">>,
    <<"r", "a", "c", "i", "s", "t">>,
    <<"s", "e", "x", "i", "s", "t">> }
insult_terms ==
  { <<"i", "d", "i", "o", "t">>,
    <<"s", "t", "u", "p", "i", "d">>,
    <<"m", "o", "r", "o", "n">>,
    <<"d", "u", "m", "b">>,
    <<"w", "o", "r", "t", "h", "l", "e", "s", "s">>,
    <<"l", "o", "s", "e", "r">> }
violence_terms ==
  { <<"b", "o", "m", "b">>,
    <<"w", "e", "a", "p", "o", "n">>,
    <<"v", "i", "o", "l", "e", "n", "c", "e">>,
    <<"m", "u", "r", "d", "e", "r">> }

toxic_patterns ==
  << <<Boundary, OneOf(hate_terms), Boundary>>,
     <<Boundary, OneOf(insult_terms), Boundary>>,
     <<Boundary, OneOf(violence_terms), Boundary>> >>

\* the texts kept by
\* [t for t in texts if t.strip() and t.lower() != "nan"] among
\* texts[lo..hi], in row order (the range is halved, so that the depth of
\* the evaluation grows with the logarithm of the row count)
RECURSIVE KeepBetween(_, _, _)
KeepBetween(texts, lo, hi) ==
  IF lo > hi THEN <<>>
  ELSE IF lo = hi
  THEN Bind(texts[lo], LAMBDA t :
         IF Len(Strip(t)) > 0 /\ Lower(t) # <<"n", "a", "n">> THEN <<t>> ELSE <<>>)
  ELSE KeepBetween(texts, lo, (lo + hi) \div 2)
         \o KeepBetween(texts, ((lo + hi) \div 2) + 1, hi)

KeepTexts(texts) == Bind(texts, LAMBDA ts : KeepBetween(ts, 1, Len(ts)))

\* the non-empty texts of the resolved text column
ToxicityTexts(d) ==
  Bind(_find_col(d, TEXT_OUTPUT_COLS), LAMBDA text_col :
    IF text_col = None THEN <<>>
    ELSE KeepTexts([r \in 1..NRows(d) |-> AsStr(ColumnOf(d, text_col)[r])]))

\* A faulty variant of the keyword fallback: a text counts once for every
\* pattern it matches
KeywordRatePerPattern(texts) ==
  Bind(texts, LAMBDA ts :
    Frac(SumSeq([p \in 1..Len(toxic_patterns) |->
                   Cardinality({i \in 1..Len(ts) : Search(toxic_patterns[p], Lower(ts[i]))})]),
         Len(ts)))

\* the keyword fallback: re.search(combined_pattern, t, re.IGNORECASE)
\* on each kept text; the patterns are lowercase
KeywordRate(texts) ==
  Bind(texts, LAMBDA ts :
    Frac(Cardinality({i \in 1..Len(ts) : SearchAny(toxic_patterns, Lower(ts[i]))}),
         Len(ts)))

\* What the Detoxify package does during one call: the import fails
\* ("absent"), Detoxify("original") or model.predict raises ("error"),
\* predict returns per-text scores of mean avg ("scores"), or predict
\* never returns ("stall").
Absent      == [kind |-> "absent", avg |-> 0]
Failing     == [kind |-> "error",  avg |-> 0]
Stalled     == [kind |-> "stall",  avg |-> 0]
Scoring(a)  == [kind |-> "scores", avg |-> a]

\* The outcome of a call: it returns a float, an exception leaves it, or
\* it never returns
Returns(x) == [out |-> "return", val |-> x]
Raises     == [out |-> "raise",  val |-> NaN]
Hangs      == [out |-> "hang",   val |-> NaN]

\* the cap on the texts handed to the classifier
MaxClassifierTexts == 200

\* A faulty variant of the slice: every text is handed over
ClassifierInputAll(texts) == texts

\* texts[:200]
ClassifierInput(texts) ==
  SubSeq(texts, 1, IF Len(texts) < MaxClassifierTexts THEN Len(texts) ELSE MaxClassifierTexts)

\* only ImportError is caught around the classifier (scoring.py:168-177)
compute_toxicity_score(d, detoxify) ==
  Bind(_find_col(d, TEXT_OUTPUT_COLS), LAMBDA text_col :
    IF text_col = None THEN Returns(Fx(100000))
    ELSE
      Bind(ToxicityTexts(d), LAMBDA texts :
        IF Len(texts) = 0 THEN Returns(Fx(100000))
        ELSE CASE detoxify.kind = "scores" -> Returns(Fx(detoxify.avg))
               [] detoxify.kind = "error"  -> Raises
               [] detoxify.kind = "stall"  -> Hangs
               [] detoxify.kind = "absent" -> Returns(KeywordRate(texts))))

---------------------------------------------------------------------------
(* 4. Robustness                                                           *)

\* the value nunique() counts: missing values are not counted, and equal
\* numbers are one value whatever their type
DistinctKey(c) == IF c.k \in {"int", "float"} THEN [k |-> "num", s |-> <<>>, v |-> c.v] ELSE c

\* A faulty variant of the grouping: rows are grouped by the trimmed,
\* lowercased prompt
NonDeterministicRateNormalized(d, prompt_col, decision_col) ==
  Bind([r \in 1..NRows(d) |-> Lower(Strip(AsStr(ColumnOf(d, prompt_col)[r])))], LAMBDA keys :
  Bind(ColumnOf(d, decision_col), LAMBDA decisions :
  Bind({keys[r] : r \in 1..NRows(d)}, LAMBDA groups :
    LET nunique(g) == Cardinality({DistinctKey(decisions[r]) :
                                     r \in {q \in 1..NRows(d) :
                                              keys[q] = g /\ decisions[q].k # "nan"}})
    IN  Frac(Cardinality({g \in groups : nunique(g) > 1}), Cardinality(groups)))))

\* df.groupby(df[prompt_col].astype(str))[decision_col].nunique(), then
\* (grouped > 1).mean()
NonDeterministicRate(d, prompt_col, decision_col) ==
  Bind([r \in 1..NRows(d) |-> AsStr(ColumnOf(d, prompt_col)[r])], LAMBDA keys :
  Bind(ColumnOf(d, decision_col), LAMBDA decisions :
  Bind({keys[r] : r \in 1..NRows(d)}, LAMBDA groups :
    LET nunique(g) == Cardinality({DistinctKey(decisions[r]) :
                                     r \in {q \in 1..NRows(d) :
                                              keys[q] = g /\ decisions[q].k # "nan"}})
    IN  Frac(Cardinality({g \in groups : nunique(g) > 1}), Cardinality(groups)))))

compute_robustness_score(d) ==
  Bind(_find_col(d, CONFIDENCE_COLS), LAMBDA conf_col :
  Bind(IF conf_col # None
       THEN Bind(Scaled(Confidence(d, conf_col)), LAMBDA conf :
            Bind(Std(conf), LAMBDA std :
              <<PyMin(Times(std, 3), Fx(One)), FracBelow(conf, 55)>>))
       ELSE <<>>, LAMBDA s1 :
  Bind(_find_col(d, PROMPT_COLS), LAMBDA prompt_col :
  Bind(_find_col(d, DECISION_COLS), LAMBDA decision_col :
  Bind(IF prompt_col # None /\ decision_col # None
       THEN <<NonDeterministicRate(d, prompt_col, decision_col)>>
       ELSE <<>>, LAMBDA s2 :
  Bind(s1 \o s2, LAMBDA scores :
    IF Len(scores) > 0 THEN MeanOf(scores) ELSE Fx(400000)))))))

---------------------------------------------------------------------------
(* 5. Explainability                                                       *)

\* (explanations.notna() & (explanations != "") & (explanations.str.len() > 5)).mean()
\* of df[col].astype(str).str.strip(), as the pair (rows counted, rows)
HasExplanationCount(d, col) ==
  Bind(ColumnOf(d, col), LAMBDA cells :
    Cardinality({r \in 1..NRows(d) : Len(Strip(AsStr(cells[r]))) > 5}))

\* A faulty variant of the threshold: a dataset explained in exactly
\* four rows of five counts as well explained
WellExplainedInclusive(d, col) == 10 * HasExplanationCount(d, col) >= 8 * NRows(d)

\* has_explanation > 0.8
WellExplained(d, col) == 10 * HasExplanationCount(d, col) > 8 * NRows(d)

compute_explainability_score(d) ==
  Bind(_find_col(d, CONFIDENCE_COLS), LAMBDA conf_col :
  Bind(_find_col(d, EXPLANATION_COLS), LAMBDA explanation_col :
    IF explanation_col # None /\ WellExplained(d, explanation_col)
    THEN Fx(150000)
    ELSE IF conf_col # None
    THEN
      Bind(Scaled(Confidence(d, conf_col)), LAMBDA conf :
      Bind(FracBetween(conf, 45, 55), LAMBDA near_50_pct :
      Bind(Std(conf), LAMBDA std :
      Bind(PyMin(Times(std, 2), Fx(One \div 2)), LAMBDA variance_penalty :
      Bind(Plus(Over(Times(near_50_pct, 6), 10), variance_penalty), LAMBDA score :
        PyMin(score, Fx(One)))))))
    ELSE Fx(750000)))

---------------------------------------------------------------------------
(* 6. Data leakage                                                         *)

credential_words ==
  { <<"p", "a", "s", "s", "w", "o", "r", "d">>,
    <<"p", "a", "s", "s", "w", "d">>,
    <<"s", "e", "c", "r", "e", "t">>,
    <<"a", "p", "i", "_", "k", "e", "y">>,
    <<"a", "p", "i", "-", "k", "e", "y">>,
    <<"t", "o", "k", "e", "n">> }

EmailLocal  == Letters \cup Digits \cup {".", "_", "%", "+", "-"}
EmailDomain == Letters \cup Digits \cup {".", "-"}
PhoneSep    == Whitespace \cup {"-", "."}

pii_patterns ==
  << \* email
     << Class(EmailLocal, 1, -1), Class({"@"}, 1, 1), Class(EmailDomain, 1, -1),
        Class({"."}, 1, 1), Class(Letters, 2, -1) >>,
     \* US phone
     << Boundary, Class(Digits, 3, 3), Class(PhoneSep, 0, 1), Class(Digits, 3, 3),
        Class(PhoneSep, 0, 1), Class(Digits, 4, 4), Boundary >>,
     \* credit card
     << Boundary, Class(Digits, 4, 4), Class({"-", " "}, 0, 1), Class(Digits, 4, 4),
        Class({"-", " "}, 0, 1), Class(Digits, 4, 4), Class({"-", " "}, 0, 1),
        Class(Digits, 4, 4), Boundary >>,
     \* SSN
     << Boundary, Class(Digits, 3, 3), Class({"-"}, 1, 1), Class(Digits, 2, 2),
        Class({"-"}, 1, 1), Class(Digits, 4, 4), Boundary >>,
     \* IP address
     << Boundary, Class(Digits, 1, 3), Class({"."}, 1, 1), Class(Digits, 1, 3),
        Class({"."}, 1, 1), Class(Digits, 1, 3), Class({"."}, 1, 1),
        Class(Digits, 1, 3), Boundary >>,
     \* UK NI number
     << Boundary, Class(UpperLetters, 2, 2), Class(Digits, 6, 6),
        Class(UpperLetters, 1, 1), Boundary >>,
     \* credentials
     << Boundary, OneOf(credential_words), Class(Whitespace, 0, -1),
        Class({":", "="}, 1, 1), Class(Whitespace, 0, -1), NotClass(Whitespace, 1, -1) >> >>

\* A faulty variant: the missing texts are dropped before the scan, as
\* compute_toxicity_score drops them
compute_data_leakage_score_dropna(d) ==
  Bind(_find_col(d, TEXT_OUTPUT_COLS), LAMBDA text_col :
    IF text_col = None THEN Fx(100000)
    ELSE
      Bind(ColumnOf(d, text_col), LAMBDA cells :
      Bind({r \in 1..NRows(d) : cells[r].k # "nan"}, LAMBDA present :
      Bind(Cardinality({r \in present : SearchAny(pii_patterns, AsStr(cells[r]))}),
           LAMBDA leakage_count :
        Frac(leakage_count, IF Cardinality(present) > 1 THEN Cardinality(present) ELSE 1)))))

compute_data_leakage_score(d) ==
  Bind(_find_col(d, TEXT_OUTPUT_COLS), LAMBDA text_col :
    IF text_col = None THEN Fx(100000)
    ELSE
      Bind(ColumnOf(d, text_col), LAMBDA cells :
      Bind(Cardinality({r \in 1..NRows(d) : SearchAny(pii_patterns, AsStr(cells[r]))}),
           LAMBDA leakage_count :
        Frac(leakage_count, IF NRows(d) > 1 THEN NRows(d) ELSE 1))))

---------------------------------------------------------------------------
(* 7. Drift                                                                *)

\* smaller datasets get the constant
MinDriftRows == 20

\* _compute_psi's buckets argument
Buckets == 10

\* ln of the primes, in millionths
LnPrime ==
  (2 :> 693147) @@ (3 :> 1098612) @@ (5 :> 1609438) @@ (7 :> 1945910) @@
  (11 :> 2397895) @@ (13 :> 2564949) @@ (17 :> 2833213) @@ (19 :> 2944439) @@
  (23 :> 3135494) @@ (29 :> 3367296) @@ (31 :> 3433987) @@ (37 :> 3610918) @@
  (41 :> 3713572) @@ (43 :> 3761200) @@ (47 :> 3850148)

\* np.log of a positive integer, in millionths
RECURSIVE LnInt(_)
LnInt(k) ==
  IF k = 1 THEN 0
  ELSE Bind(MinOf({q \in DOMAIN LnPrime : k % q = 0}), LAMBDA p :
         LnPrime[p] + LnInt(k \div p))

\* np.linspace(0, 1, 11)[k] <= v/den.  In float64 the breakpoints 3, 6 and 7
\* are 0.30000000000000004, 0.6000000000000001 and 0.7000000000000001, just
\* above 0.3, 0.6 and 0.7.
AtLeastBreakpoint(v, den, k) ==
  IF k \in {3, 6, 7} THEN Buckets * v > k * den ELSE Buckets * v >= k * den

\* np.histogram(values, bins=breakpoints)[0]: bucket b holds the values in
\* [breakpoint b-1, breakpoint b), the last one also the value 1.0; values
\* outside [0, 1] are in no bucket
Histogram(c) ==
  [b \in 1..Buckets |->
     Cardinality({i \in 1..Len(c.vals) :
       /\ c.vals[i] >= 0 /\ c.vals[i] <= c.den
       /\ AtLeastBreakpoint(c.vals[i], c.den, b - 1)
       /\ (b = Buckets \/ ~AtLeastBreakpoint(c.vals[i], c.den, b))})]

\* One bucket's share as the fraction num/den: count / len, and 0.0001 for
\* an empty bucket (np.where(pct == 0, 0.0001, pct))
FloorDen == 10000
Pct(count, n) == IF count = 0 THEN [num |-> 1, den |-> FloorDen] ELSE [num |-> count, den |-> n]

\* (actual_pct - expected_pct) * np.log(actual_pct / expected_pct) of one bucket
PsiTerm(a, e) ==
  Bind(Frac(a.num, a.den).x - Frac(e.num, e.den).x, LAMBDA diff :
  Bind(LnInt(a.num) + LnInt(e.den) - LnInt(a.den) - LnInt(e.num), LAMBDA log :
    MulFx(diff, log)))

_compute_psi(expected, actual) ==
  Bind(Len(expected.vals), LAMBDA ne :
  Bind(Len(actual.vals), LAMBDA na :
    \* counts / 0 is NaN in every bucket
    IF ne = 0 \/ na = 0 THEN NaN
    ELSE
      Bind(Histogram(expected), LAMBDA he :
      Bind(Histogram(actual), LAMBDA ha :
        Fx(SumSeq([b \in 1..Buckets |-> PsiTerm(Pct(ha[b], na), Pct(he[b], ne))]))))))

drift_positive_terms ==
  { <<"a", "p", "p", "r", "o", "v", "e", "d">>,
    <<"y", "e", "s">>,
    <<"a", "c", "c", "e", "p", "t">>,
    <<"1">>,
    <<"t", "r", "u", "e">>,
    <<"p", "o", "s", "i", "t", "i", "v", "e">> }

\* df.iloc[lo-1:hi]
RowSlice(d, lo, hi) == [columns |-> d.columns, rows |-> SubSeq(d.rows, lo, hi)]

\* half[decision_col].astype(str).str.lower().isin(positive_terms).mean()
DriftPositiveRate(half, decision_col) ==
  Bind(ColumnOf(half, decision_col), LAMBDA cells :
    Frac(Cardinality({r \in 1..NRows(half) :
                        Lower(AsStr(cells[r])) \in drift_positive_terms}),
         NRows(half)))

\* A faulty variant of the normalisation: the quotient is not clamped
NormalisedPsiUnclamped(psi) == Times(psi, 4)

\* min(psi / 0.25, 1.0)
NormalisedPsi(psi) == PyMin(Times(psi, 4), Fx(One))

\* A faulty variant of the row floor: a dataset of exactly MinDriftRows
\* rows is still too small
TooFewRowsInclusive(d) == NRows(d) <= MinDriftRows

\* len(df) < 20
TooFewRows(d) == NRows(d) < MinDriftRows

compute_drift_score(d) ==
  Bind(_find_col(d, CONFIDENCE_COLS), LAMBDA conf_col :
  Bind(_find_col(d, DECISION_COLS), LAMBDA decision_col :
    IF TooFewRows(d) THEN Fx(200000)
    ELSE
      Bind(NRows(d) \div 2, LAMBDA mid :
      Bind(RowSlice(d, 1, mid), LAMBDA baseline :
      Bind(RowSlice(d, mid + 1, NRows(d)), LAMBDA current :
        IF conf_col # None
        THEN
          Bind(Scaled(Confidence(baseline, conf_col)), LAMBDA conf_base :
          Bind(Scaled(Confidence(current, conf_col)), LAMBDA conf_curr :
          Bind(_compute_psi(conf_base, conf_curr), LAMBDA psi :
            NormalisedPsi(psi))))
        ELSE IF decision_col # None
        THEN
          Bind(DriftPositiveRate(baseline, decision_col), LAMBDA base_rate :
          Bind(DriftPositiveRate(current, decision_col), LAMBDA curr_rate :
          Bind(Fx(Abs(curr_rate.x - base_rate.x)), LAMBDA shift :
            PyMin(Times(shift, 5), Fx(One)))))
        ELSE Fx(250000))))))

---------------------------------------------------------------------------
(* The aggregator, compute_all_scores                                      *)

Metrics ==
  <<"bias", "hallucination", "toxicity", "robustness", "explainability",
    "data_leakage", "drift">>
MetricSet == {Metrics[i] : i \in 1..Len(Metrics)}

\* round(float(v), 4), in millionths
Round4(a) == IF a.nan THEN NaN ELSE Fx(((a.x + 50) \div 100) * 100)

\* A faulty variant of the frame: the toxicity computer drops the
\* rows without text from df itself (dropna(subset=[text_col], inplace=True))
RECURSIVE KeepRowsWithText(_, _)
KeepRowsWithText(rows, i) ==
  IF Len(rows) = 0 THEN <<>>
  ELSE LET rest == KeepRowsWithText(SubSeq(rows, 1, Len(rows) - 1), i)
       IN  IF rows[Len(rows)][i].k = "nan" THEN rest ELSE Append(rest, rows[Len(rows)])

DfAfterDropna(m, d) ==
  LET text_col == _find_col(d, TEXT_OUTPUT_COLS)
  IN  IF m = "toxicity" /\ text_col # None
      THEN [columns |-> d.columns,
            rows    |-> KeepRowsWithText(d.rows,
                          CHOOSE j \in 1..Len(d.columns) : d.columns[j] = text_col)]
      ELSE d

\* A faulty variant: the bias computer stores its normalized decisions in df
\* (df[decision_col] = decisions)
DfAfterNormalize(m, d) ==
  LET decision_col == _find_col(d, DECISION_COLS)
      j == CHOOSE i \in 1..Len(d.columns) : d.columns[i] = decision_col
  IN  IF m = "bias" /\ decision_col # None
      THEN [columns |-> d.columns,
            rows    |-> [r \in 1..NRows(d) |->
                           [d.rows[r] EXCEPT ![j] = StrCell(Strip(Lower(AsStr(@))))]]]
      ELSE d

\* A faulty variant: the explainability computer fills the missing explanations in
\* df (fillna("", inplace=True))
DfAfterFillna(m, d) ==
  LET explanation_col == _find_col(d, EXPLANATION_COLS)
      j == CHOOSE i \in 1..Len(d.columns) : d.columns[i] = explanation_col
  IN  IF m = "explainability" /\ explanation_col # None
      THEN [columns |-> d.columns,
            rows    |-> [r \in 1..NRows(d) |->
                           [d.rows[r] EXCEPT ![j] = IF @.k = "nan" THEN StrCell(<<>>) ELSE @]]]
      ELSE d

\* The DataFrame object after the computer of metric m has run on d.  No
\* computer assigns into df: every Series it derives (astype, str.lower,
\* str.strip, to_numeric, dropna, conf / 100, iloc slices) is a new object.
DfAfter(m, d) == d

VARIABLES
  df,         \* the DataFrame object the caller passes
  snapshot,   \* the dataset as the caller built it
  pc,         \* "computing", "done" (returned), "raised", "hung"
  raw,        \* the values of the dict literal computed so far, by key
  scores,     \* the returned ScoreSet (empty until the return)
  detoxify,   \* what the Detoxify package did in this call
  predicted,  \* the texts model.predict was called with in this call
  ncalls,     \* calls of compute_all_scores made on df
  prev,       \* the ScoreSet and the detoxify behaviour of the previous call
  candidates, \* _find_col's candidates argument
  found,      \* _find_col's result, once it has returned
  handler,    \* the request being handled: its arguments and its position
  stored,     \* the storage backend: the files saved, by storage path
  uploads,    \* the rows of the uploads table
  reports,    \* the rows of the reports table
  response,   \* the response to the latest request that has ended
  returned,   \* the scores the upload responses have carried, by upload id
  nextId,     \* the next identifier uuid4() hands out
  requests,   \* requests received so far
  analysis    \* what generate_ai_analysis has returned last

aggregatorVars == <<df, snapshot, pc, raw, scores, detoxify, predicted, ncalls, prev>>
resolverVars   == <<candidates, found>>
serviceVars    == <<handler, stored, uploads, reports, response, returned, nextId,
                    requests, analysis>>
vars           == <<aggregatorVars, resolverVars, serviceVars>>

NotCalled == [kind |-> "none", avg |-> 0]
NoScores  == [m \in {} |-> NaN]

\* the averages a working classifier reports, in millionths
ClassifierAverages == {0, One \div 4}
DetoxifyBehaviours ==
  {Absent, Failing, Stalled} \cup {Scoring(a) : a \in ClassifierAverages}

\* The dict literal evaluates its values in source order; with
\* ordered = FALSE the computers are scheduled independently.
MayRun(m, ordered) ==
  /\ pc = "computing"
  /\ m \notin DOMAIN raw
  /\ ordered => \A i \in 1..Len(Metrics) :
                  Metrics[i] = m => \A j \in 1..(i - 1) : Metrics[j] \in DOMAIN raw

Computed(m, v) ==
  /\ raw' = raw @@ (m :> v)
  /\ df' = DfAfter(m, df)
  /\ UNCHANGED <<snapshot, pc, scores, ncalls, prev, resolverVars, serviceVars>>

BiasStep(ordered) ==
  /\ MayRun("bias", ordered)
  /\ Computed("bias", compute_bias_score(df))
  /\ UNCHANGED <<detoxify, predicted>>

HallucinationStep(ordered) ==
  /\ MayRun("hallucination", ordered)
  /\ Computed("hallucination", compute_hallucination_score(df))
  /\ UNCHANGED <<detoxify, predicted>>

\* compute_toxicity_score returns: no text, the classifier's average, or
\* the keyword rate after the ImportError
ToxicityStep(ordered) ==
  /\ MayRun("toxicity", ordered)
  /\ \E texts \in {ToxicityTexts(df)} : \E dx \in DetoxifyBehaviours :
       \E r \in {compute_toxicity_score(df, dx)} :
         /\ r.out = "return"
         /\ detoxify' = IF Len(texts) = 0 THEN NotCalled ELSE dx
         /\ predicted' = IF Len(texts) > 0 /\ dx.kind = "scores"
                          THEN ClassifierInput(texts) ELSE <<>>
         /\ Computed("toxicity", r.val)

\* an exception of the classifier leaves compute_toxicity_score and
\* compute_all_scores; it is raised by Detoxify("original"), before
\* texts[:200] is evaluated, or by model.predict
ToxicityRaises(ordered) ==
  /\ MayRun("toxicity", ordered)
  /\ \E texts \in {ToxicityTexts(df)} : \E dx \in DetoxifyBehaviours :
       /\ compute_toxicity_score(df, dx).out = "raise"
       /\ detoxify' = dx
       /\ predicted' \in {<<>>, ClassifierInput(texts)}
       /\ pc' = "raised"
       /\ df' = DfAfter("toxicity", df)
       /\ UNCHANGED <<snapshot, raw, scores, ncalls, prev, resolverVars, serviceVars>>

\* Detoxify("original") or model.predict does not return: the call stays
\* in flight
ToxicityHangs(ordered) ==
  /\ MayRun("toxicity", ordered)
  /\ \E texts \in {ToxicityTexts(df)} : \E dx \in DetoxifyBehaviours :
       /\ compute_toxicity_score(df, dx).out = "hang"
       /\ detoxify' = dx
       /\ predicted' \in {<<>>, ClassifierInput(texts)}
       /\ pc' = "hung"
       /\ df' = DfAfter("toxicity", df)
       /\ UNCHANGED <<snapshot, raw, scores, ncalls, prev, resolverVars, serviceVars>>

RobustnessStep(ordered) ==
  /\ MayRun("robustness", ordered)
  /\ Computed("robustness", compute_robustness_score(df))
  /\ UNCHANGED <<detoxify, predicted>>

ExplainabilityStep(ordered) ==
  /\ MayRun("explainability", ordered)
  /\ Computed("explainability", compute_explainability_score(df))
  /\ UNCHANGED <<detoxify, predicted>>

DataLeakageStep(ordered) ==
  /\ MayRun("data_leakage", ordered)
  /\ Computed("data_leakage", compute_data_leakage_score(df))
  /\ UNCHANGED <<detoxify, predicted>>

DriftStep(ordered) ==
  /\ MayRun("drift", ordered)
  /\ Computed("drift", compute_drift_score(df))
  /\ UNCHANGED <<detoxify, predicted>>

\* scoring.py:410-412: round and return
ReturnScores ==
  /\ pc = "computing"
  /\ DOMAIN raw = MetricSet
  /\ scores' = [k \in DOMAIN raw |-> Round4(raw[k])]
  /\ pc' = "done"
  /\ UNCHANGED <<df, snapshot, raw, detoxify, predicted, ncalls, prev, resolverVars, serviceVars>>

\* the caller scores the same DataFrame object again
MaxCalls == 2
CallAgain ==
  /\ pc = "done"
  /\ ncalls < MaxCalls
  /\ ncalls' = ncalls + 1
  /\ prev' = [scores |-> scores, detoxify |-> detoxify]
  /\ pc' = "computing"
  /\ raw' = NoScores
  /\ scores' = NoScores
  /\ detoxify' = NotCalled
  /\ predicted' = <<>>
  /\ UNCHANGED <<df, snapshot, resolverVars, serviceVars>>

---------------------------------------------------------------------------
(* Datasets                                                                *)
(* A dataset is built from blocks: a block is one row repeated size times. *)
(* A schema gives the column names and the rows its blocks may repeat.     *)

\* the rows of a block sequence bs (pairs <<row, size>>), in order
RECURSIVE BlockRows(_)
BlockRows(bs) ==
  IF Len(bs) = 0 THEN <<>>
  ELSE BlockRows(SubSeq(bs, 1, Len(bs) - 1))
         \o [i \in 1..bs[Len(bs)][2] |-> bs[Len(bs)][1]]

\* every dataset of 1..maxBlocks blocks over a schema
DatasetsOf(schema, sizes, maxBlocks) ==
  {[columns |-> schema.columns, rows |-> BlockRows(bs)] :
     bs \in UNION {[1..n -> schema.rows \X sizes] : n \in 1..maxBlocks}}

\* every dataset of 1..maxBlocks blocks drawn from a given set of blocks
DatasetsOfBlocks(columns, blocks, maxBlocks) ==
  {[columns |-> columns, rows |-> BlockRows(bs)] :
     bs \in UNION {[1..n -> blocks] : n \in 1..maxBlocks}}

ConfidenceOnly ==
  [columns |-> << <<"c", "o", "n", "f", "i", "d", "e", "n", "c", "e">> >>,
   rows    |-> { <<FloatCell(50)>>, <<FloatCell(95)>>, <<StrCell(<<"h", "i", "g", "h">>)>> }]

PercentAndText ==
  [columns |-> << <<"S", "c", "o", "r", "e">>, <<"r", "e", "s", "p", "o", "n", "s", "e">> >>,
   rows    |-> { <<IntCell(55), StrCell(<<"I", " ", "h", "a", "t", "e", " ", "t", "h", "i", "s">>)>>,
                 <<IntCell(95), StrCell(<<"a", "l", "l", " ", "f", "i", "n", "e">>)>>,
                 <<FloatCell(50), NanCell>> }]

DecisionByGroup ==
  [columns |-> << <<"D", "e", "c", "i", "s", "i", "o", "n">>, <<"g", "e", "n", "d", "e", "r">>, <<"g", "r", "o", "u", "n", "d", "_", "t", "r", "u", "t", "h">> >>,
   rows    |-> { <<StrCell(<<" ", "A", "p", "p", "r", "o", "v", "e", "d">>), StrCell(<<"m", "a", "l", "e">>), StrCell(<<"a", "p", "p", "r", "o", "v", "e", "d">>)>>,
                 <<StrCell(<<"r", "e", "j", "e", "c", "t", "e", "d">>), StrCell(<<"F", "e", "m", "a", "l", "e">>), StrCell(<<"a", "p", "p", "r", "o", "v", "e", "d">>)>>,
                 <<StrCell(<<"p", "a", "s", "s", " ">>), StrCell(<<"f", "e", "m", "a", "l", "e">>), StrCell(<<"r", "e", "j", "e", "c", "t", "e", "d">>)>> }]

PromptAndWhy ==
  [columns |-> << <<"p", "r", "o", "m", "p", "t">>, <<"p", "r", "e", "d", "i", "c", "t", "i", "o", "n">>, <<"e", "x", "p", "l", "a", "n", "a", "t", "i", "o", "n">> >>,
   rows    |-> { <<StrCell(<<"Q", "1">>), StrCell(<<"y", "e", "s">>), StrCell(<<"i", "n", "c", "o", "m", "e", " ", "t", "o", "o", " ", "l", "o", "w">>)>>,
                 <<StrCell(<<"Q", "1">>), StrCell(<<"Y", "e", "s">>), StrCell(<<"n", "/", "a">>)>>,
                 <<StrCell(<<"q", "1", " ">>), IntCell(1), NanCell>> }]

Unrecognized ==
  [columns |-> << <<"n", "o", "t", "e", "s">> >>,
   rows    |-> { <<StrCell(<<"m", "a", "i", "l", " ", "b", "o", "b", "@", "e", "x", "a", "m", "p", "l", "e", ".", "c", "o", "m">>)>>, <<NanCell>> }]

\* Texts: toxic words of several lexicons and PII of several shapes in one
\* text, a toxic word inside another word, one email address, a missing
\* and a blank text
TextBlocks ==
  [columns |-> << <<"A", "n", "s", "w", "e", "r">> >>,
   blocks  |-> { << <<StrCell(<<"Y", "o", "u", " ", "S", "T", "U", "P", "I", "D", " ", "i", "d", "i", "o", "t", ",", " ", "K", "i", "l", "l", " ", "1", "0", ".", "0", ".", "0", ".", "1", " ", "b", "o", "b", "@", "e", "x", "a", "m", "p", "l", "e", ".", "c", "o", "m">>)>>, 1 >>,
                 << <<StrCell(<<"h", "a", "t", "e", "f", "u", "l", " ", "w", "o", "r", "d", "s">>)>>, 3 >>,
                 << <<StrCell(<<"a", "l", "l", " ", "f", "i", "n", "e", ",", " ", "m", "a", "i", "l", " ", "b", "o", "b", "@", "e", "x", "a", "m", "p", "l", "e", ".", "c", "o", "m">>)>>, 1 >>,
                 << <<NanCell>>, 1 >>,
                 << <<StrCell(<<" ", " ">>)>>, 1 >> }]

\* Explanations next to confidences: four explained rows, and single rows
\* with a short, a missing and a padded explanation
ExplainedBlocks ==
  [columns |-> << <<"R", "e", "a", "s", "o", "n", "i", "n", "g">>, <<"p", "r", "o", "b", "a", "b", "i", "l", "i", "t", "y">> >>,
   blocks  |-> { << <<StrCell(<<"i", "n", "c", "o", "m", "e", " ", "t", "o", "o", " ", "l", "o", "w">>), FloatCell(50)>>, 4 >>,
                 << <<StrCell(<<"n", "/", "a">>), FloatCell(50)>>, 1 >>,
                 << <<NanCell, StrCell(<<"h", "i", "g", "h">>)>>, 1 >>,
                 << <<StrCell(<<" ", "b", "e", "c", "a", "u", "s", "e", " ">>), FloatCell(95)>>, 1 >> }]

\* The aggregate call: blocks per dataset, and the block sizes: a single
\* row, and half of the rows the drift metric asks for; some schemas also
\* come with blocks one row short of what the drift metric asks for
MaxBlocks == 2
BlockSizes == {1, MinDriftRows \div 2}
Schemas == {ConfidenceOnly, PercentAndText, DecisionByGroup, PromptAndWhy, Unrecognized}
Datasets ==
  UNION {DatasetsOf(s, BlockSizes, MaxBlocks) : s \in Schemas}
    \cup UNION {DatasetsOf(s, {1, MinDriftRows - 1}, MaxBlocks) :
                  s \in {ConfidenceOnly, DecisionByGroup, Unrecognized}}
    \cup DatasetsOfBlocks(TextBlocks.columns, TextBlocks.blocks, MaxBlocks)
    \cup DatasetsOfBlocks(ExplainedBlocks.columns, ExplainedBlocks.blocks, MaxBlocks)

\* Small datasets, for the runs that schedule the computers freely or call
\* twice
MaxSmallBlocks == 2
SmallDatasets ==
  UNION {DatasetsOf(s, {1}, MaxSmallBlocks) : s \in {PercentAndText, PromptAndWhy}}

\* The bias metric: groups below, at and above MinGroupRows
GenderDecision ==
  [columns |-> << <<"D", "e", "c", "i", "s", "i", "o", "n">>, <<"G", "e", "n", "d", "e", "r">> >>,
   blocks  |-> { <<<<StrCell(<<" ", "A", "p", "p", "r", "o", "v", "e", "d">>), StrCell(<<"m", "a", "l", "e">>)>>, MinGroupRows>>,
                 <<<<StrCell(<<"r", "e", "j", "e", "c", "t", "e", "d">>), StrCell(<<"M", "a", "l", "e", " ">>)>>, 1>>,
                 <<<<StrCell(<<"r", "e", "j", "e", "c", "t", "e", "d">>), StrCell(<<"M", "a", "l", "e", " ">>)>>, MinGroupRows>>,
                 <<<<StrCell(<<"P", "A", "S", "S">>), StrCell(<<"f", "e", "m", "a", "l", "e">>)>>, MinGroupRows - 1>>,
                 <<<<StrCell(<<"P", "A", "S", "S">>), StrCell(<<"f", "e", "m", "a", "l", "e">>)>>, MinGroupRows>>,
                 <<<<StrCell(<<"d", "e", "n", "i", "e", "d">>), StrCell(<<"f", "e", "m", "a", "l", "e">>)>>, 1>>,
                 <<<<StrCell(<<"n", "o">>), StrCell(<<"o", "t", "h", "e", "r">>)>>, 1>> }]

TwoFamilies ==
  [columns |-> << <<"p", "r", "e", "d", "i", "c", "t", "i", "o", "n">>, <<"s", "e", "x">>, <<"e", "t", "h", "n", "i", "c", "i", "t", "y">>, <<"p", "r", "o", "b">> >>,
   rows    |-> { <<IntCell(1), StrCell(<<"m">>), StrCell(<<"a">>), FloatCell(50)>>,
                 <<IntCell(0), StrCell(<<"f">>), StrCell(<<"a">>), FloatCell(90)>>,
                 <<FloatCell(100), StrCell(<<"m">>), StrCell(<<"b">>), StrCell(<<"h", "i", "g", "h">>)>>,
                 <<StrCell(<<"t", "r", "u", "e">>), StrCell(<<"f">>), StrCell(<<"b">>), NanCell>> }]

GroupsNoDecision ==
  [columns |-> << <<"g", "e", "n", "d", "e", "r">>, <<"c", "o", "n", "f", "i", "d", "e", "n", "c", "e">> >>,
   rows    |-> { <<StrCell(<<"m", "a", "l", "e">>), FloatCell(50)>>,
                 <<StrCell(<<"f", "e", "m", "a", "l", "e">>), IntCell(95)>>,
                 <<StrCell(<<"f", "e", "m", "a", "l", "e">>), StrCell(<<"n", "/", "a">>)>> }]

MaxBiasBlocks == 3
BiasDatasets ==
  DatasetsOfBlocks(GenderDecision.columns, GenderDecision.blocks, MaxBiasBlocks)
    \cup DatasetsOf(TwoFamilies, {1, MinGroupRows}, MaxBiasBlocks)
    \cup DatasetsOf(GroupsNoDecision, {1, MinGroupRows}, MaxBiasBlocks)
    \cup DatasetsOf(Unrecognized, {1}, MaxBiasBlocks)

\* The classifier's input: the texts above and a block as long as the cap
MaxTextBlocks == 2
TextDatasets ==
  DatasetsOfBlocks(TextBlocks.columns,
                   TextBlocks.blocks
                     \cup { << <<StrCell(<<"a", "l", "l", " ", "f", "i", "n", "e">>)>>, MaxClassifierTexts >> },
                   MaxTextBlocks)

\* Column resolution: frames of 1..MaxColumns distinct column names, one
\* row of missing values
MaxColumns == 3
ColumnNames ==
  { <<"d", "e", "c", "i", "s", "i", "o", "n">>, <<"D", "e", "c", "i", "s", "i", "o", "n">>, <<"D", "E", "C", "I", "S", "I", "O", "N">>, <<"L", "a", "b", "e", "l">>, <<"p", "r", "e", "d", "i", "c", "t", "i", "o", "n">>,
    <<"n", "o", "t", "e", "s">>, <<"S", "c", "o", "r", "e">>, <<"c", "o", "n", "f", "i", "d", "e", "n", "c", "e">> }
ColumnLists ==
  UNION {{c \in [1..n -> ColumnNames] : \A i, j \in 1..n : c[i] = c[j] => i = j} :
           n \in 1..MaxColumns}
ResolverFrames ==
  {[columns |-> c, rows |-> << [i \in 1..Len(c) |-> NanCell] >>] : c \in ColumnLists}
AliasLists == {DECISION_COLS, CONFIDENCE_COLS, GENDER_COLS}

---------------------------------------------------------------------------
(* Specifications                                                          *)

NotResolved == [done |-> FALSE, col |-> None]

\* a call of compute_all_scores on dataset d is starting
\* no request has been received: the tables and the storage are empty
NoRequest  == [kind |-> "none"]
NoResponse == [seq |-> 0, kind |-> "none", status |-> 0]
ServiceIdle ==
  /\ handler = NoRequest
  /\ stored = {}
  /\ uploads = {}
  /\ reports = {}
  /\ response = NoResponse
  /\ returned = {}
  /\ nextId = 1
  /\ requests = 0
  /\ analysis = [called |-> FALSE]

CallOn(d) ==
  /\ ServiceIdle
  /\ df = d
  /\ snapshot = d
  /\ pc = "computing"
  /\ raw = NoScores
  /\ scores = NoScores
  /\ detoxify = NotCalled
  /\ predicted = <<>>
  /\ ncalls = 1
  /\ prev = [scores |-> NoScores, detoxify |-> NotCalled]
  /\ candidates = <<>>
  /\ found = NotResolved

\* One call of compute_all_scores
Init == \E d \in Datasets : CallOn(d)

Next ==
  \/ BiasStep(TRUE)
  \/ HallucinationStep(TRUE)
  \/ ToxicityStep(TRUE)
  \/ ToxicityRaises(TRUE)
  \/ ToxicityHangs(TRUE)
  \/ RobustnessStep(TRUE)
  \/ ExplainabilityStep(TRUE)
  \/ DataLeakageStep(TRUE)
  \/ DriftStep(TRUE)
  \/ ReturnScores

Spec == Init /\ [][Next]_vars

\* Calls repeated on one DataFrame object
InitSmall == \E d \in SmallDatasets : CallOn(d)
NextRepeat == Next \/ CallAgain
SpecRepeat == InitSmall /\ [][NextRepeat]_vars

\* The seven computers scheduled independently
NextAnyOrder ==
  \/ BiasStep(FALSE)
  \/ HallucinationStep(FALSE)
  \/ ToxicityStep(FALSE)
  \/ ToxicityRaises(FALSE)
  \/ ToxicityHangs(FALSE)
  \/ RobustnessStep(FALSE)
  \/ ExplainabilityStep(FALSE)
  \/ DataLeakageStep(FALSE)
  \/ DriftStep(FALSE)
  \/ ReturnScores
SpecAnyOrder == InitSmall /\ [][NextAnyOrder]_vars

\* compute_bias_score alone
InitBias == \E d \in BiasDatasets : CallOn(d)
NextBias == BiasStep(TRUE)
SpecBias == InitBias /\ [][NextBias]_vars

\* compute_toxicity_score alone
InitText == \E d \in TextDatasets : CallOn(d)
NextText ==
  \/ ToxicityStep(FALSE)
  \/ ToxicityRaises(FALSE)
  \/ ToxicityHangs(FALSE)
SpecText == InitText /\ [][NextText]_vars

\* _find_col alone
FindCol ==
  /\ ~found.done
  /\ found' = [done |-> TRUE, col |-> _find_col(df, candidates)]
  /\ UNCHANGED <<aggregatorVars, candidates, serviceVars>>

InitResolver ==
  /\ ServiceIdle
  /\ df \in ResolverFrames
  /\ snapshot = df
  /\ pc = "idle"
  /\ raw = NoScores
  /\ scores = NoScores
  /\ detoxify = NotCalled
  /\ predicted = <<>>
  /\ ncalls = 0
  /\ prev = [scores |-> NoScores, detoxify |-> NotCalled]
  /\ candidates \in AliasLists
  /\ found = NotResolved
NextResolver == FindCol
SpecResolver == InitResolver /\ [][NextResolver]_vars

---------------------------------------------------------------------------
(* The analysis of a ScoreSet, claude_service.py                           *)

\* the first (framework, reference) pair of each metric
COMPLIANCE_MAP ==
  [m \in MetricSet |->
     CASE m = "bias"           -> <<"EU AI Act", "Art. 10(2)">>
       [] m = "hallucination"  -> <<"NIST AI RMF", "GOVERN 1.1">>
       [] m = "toxicity"       -> <<"EU AI Act", "Art. 9(4)">>
       [] m = "robustness"     -> <<"NIST AI RMF", "MANAGE 2.4">>
       [] m = "explainability" -> <<"GDPR", "Art. 13(2)(f)">>
       [] m = "data_leakage"   -> <<"GDPR", "Art. 32">>
       [] m = "drift"          -> <<"NIST AI RMF", "MEASURE 2.5">>]

\* every comparison with NaN is False
risk_level(score) ==
  IF ~score.nan /\ score.x >= 3 * (One \div 4) THEN "CRITICAL"
  ELSE IF ~score.nan /\ score.x >= One \div 2 THEN "HIGH"
  ELSE IF ~score.nan /\ score.x >= One \div 4 THEN "MEDIUM"
  ELSE "LOW"

\* the position of metric m in the dict
KeyIndex(m) == CHOOSE i \in 1..Len(Metrics) : Metrics[i] = m

\* sorted(scores.items(), key=lambda x: x[1], reverse=True), as the
\* metric names in order: the possible results.  The sort is stable, so
\* equal scores keep the order of the dict; with a NaN among the scores
\* the comparisons are no order and the result depends on the sort's
\* implementation: any arrangement of the items.
SortedRisks(sc) ==
  IF \E m \in MetricSet : sc[m].nan
  THEN {[i \in 1..Len(Metrics) |-> f[Metrics[i]]] : f \in Permutations(MetricSet)}
  ELSE LET before(a, b) == \/ sc[a].x > sc[b].x
                           \/ sc[a].x = sc[b].x /\ KeyIndex(a) < KeyIndex(b)
           rank(m) == Cardinality({a \in MetricSet : before(a, m)})
       IN  {[i \in 1..Len(Metrics) |-> CHOOSE m \in MetricSet : rank(m) = i - 1]}

\* the items the recommendations are drawn from: sorted_risks[:4]
TopRisks == 4

\* A faulty variant: every one of the first items gets a recommendation
RecommendedAny(level) == TRUE

\* if level in ("CRITICAL", "HIGH", "MEDIUM")
Recommended(level) == level \in {"CRITICAL", "HIGH", "MEDIUM"}

\* One recommendation; title and detail are texts about the metric
Recommendation(metric, level) ==
  [metric     |-> metric,
   effort     |-> IF level = "CRITICAL" THEN "High" ELSE "Medium",
   timeline   |-> IF level = "CRITICAL" THEN "Immediate" ELSE "Short-term",
   regulation |-> COMPLIANCE_MAP[metric]]

\* _rule_based_analysis, given the result of the sort; sorted_risks[0] of
\* an empty mapping raises.  The texts are reduced to what varies in them.
_rule_based_analysis(sc, sorted_risks) ==
  IF Len(sorted_risks) = 0 THEN Raises
  ELSE
    Bind({m \in DOMAIN sc : risk_level(sc[m]) = "CRITICAL"}, LAMBDA critical :
    Bind({m \in DOMAIN sc : risk_level(sc[m]) = "HIGH"}, LAMBDA high :
    Bind(SubSeq(sorted_risks, 1, IF Len(sorted_risks) < TopRisks
                                 THEN Len(sorted_risks) ELSE TopRisks), LAMBDA first :
    Bind(SelectSeq(first, LAMBDA m : Recommended(risk_level(sc[m]))), LAMBDA kept :
      Returns(
        [executiveSummary    |-> [critical |-> Cardinality(critical),
                                  high     |-> Cardinality(high),
                                  top      |-> sorted_risks[1]],
         topPriority         |-> [top       |-> sorted_risks[1],
                                  framework |-> COMPLIANCE_MAP[sorted_risks[1]][1]],
         complianceNarrative |-> IF critical # {} THEN "significant" ELSE "moderate",
         recommendations     |-> [i \in 1..Len(kept) |->
                                    Recommendation(kept[i], risk_level(sc[kept[i]]))],
         readinessAssessment |-> IF critical # {} THEN "not ready"
                                 ELSE "conditionally ready"])))))

\* What the configuration and the language-model service do in one call:
\* no key is configured; the client or the request raises; the reply is no
\* JSON; the reply is a JSON object
NoKey       == [key |-> FALSE, outcome |-> "none",     reply |-> "none"]
ApiError    == [key |-> TRUE,  outcome |-> "error",    reply |-> "none"]
NotJson     == [key |-> TRUE,  outcome |-> "not_json", reply |-> "none"]
Replies(r)  == [key |-> TRUE,  outcome |-> "json",     reply |-> r]

\* JSON objects the service may reply with: the structure asked for, with a
\* recommendation more than the fallback gives, and an object without the
\* keys asked for
JsonReplies ==
  { [executiveSummary    |-> "text",
     topPriority         |-> "text",
     complianceNarrative |-> "text",
     recommendations     |-> [i \in 1..(TopRisks + 1) |-> "text"],
     readinessAssessment |-> "text"],
    [error |-> "text"] }
ApiBehaviours == {NoKey, ApiError, NotJson} \cup {Replies(r) : r \in JsonReplies}

\* generate_ai_analysis: the reply parsed by json.loads is returned as it
\* is; every exception of the try block ends in the rule-based analysis
generate_ai_analysis(sc, sorted_risks, api) ==
  IF ~api.key THEN _rule_based_analysis(sc, sorted_risks)
  ELSE IF api.outcome = "json" THEN Returns(api.reply)
  ELSE _rule_based_analysis(sc, sorted_risks)

\* The score mappings analysed: every metric low, at the MEDIUM boundary or
\* at the CRITICAL boundary, a few with HIGH scores, and two with a NaN
AnalysisLevels == {One \div 10, One \div 4, 3 * (One \div 4)}
AnalysisScoreSets ==
  {[m \in MetricSet |-> Fx(f[m])] : f \in [MetricSet -> AnalysisLevels]}
    \cup {[m \in MetricSet |-> Fx(One \div 2)]}
    \cup {[m \in MetricSet |-> IF m = "drift" THEN Fx(One \div 10) ELSE Fx(One \div 2)]}
    \cup {[m \in MetricSet |-> IF m = "bias" THEN NaN ELSE Fx(One \div 2)]}
    \cup {[m \in MetricSet |-> IF m \in {"bias", "robustness", "explainability"}
                                THEN NaN ELSE Fx(One \div 10)]}

NotAnalysed == [called |-> FALSE]

\* a caller holds a ScoreSet
HoldsScores(sc) ==
  /\ ServiceIdle
  /\ df = [columns |-> <<>>, rows |-> <<>>]
  /\ snapshot = df
  /\ pc = "done"
  /\ raw = sc
  /\ scores = sc
  /\ detoxify = NotCalled
  /\ predicted = <<>>
  /\ ncalls = 0
  /\ prev = [scores |-> NoScores, detoxify |-> NotCalled]
  /\ candidates = <<>>
  /\ found = NotResolved

GenerateAiAnalysis ==
  /\ ~analysis.called
  /\ \E api \in ApiBehaviours : \E sorted_risks \in SortedRisks(scores) :
       analysis' = [called |-> TRUE, api |-> api,
                    result |-> generate_ai_analysis(scores, sorted_risks, api)]
  /\ UNCHANGED <<aggregatorVars, resolverVars, handler, stored, uploads, reports,
                 response, returned, nextId, requests>>

InitAnalysis == \E sc \in AnalysisScoreSets : HoldsScores(sc)
NextAnalysis == GenerateAiAnalysis
SpecAnalysis == InitAnalysis /\ [][NextAnalysis]_vars

---------------------------------------------------------------------------
(* The requests, routers/upload.py and routers/reports.py                  *)

\* An uploaded file: the extension of its name and its content.  The
\* content is a CSV table (header and rows), a JSON list of objects (the
\* records), one JSON object of scalars (table holds its one record), one
\* JSON object of lists (table holds the lists as columns), or bytes that
\* parse as neither.
File(ext, shape, table) == [ext |-> ext, shape |-> shape, table |-> table]

\* a cell that holds a list
ListCell(n) == [k |-> "list", s |-> <<>>, v |-> n]

NoFrame == [columns |-> <<>>, rows |-> <<>>]
Parsed(d)    == [ok |-> TRUE,  df |-> d]
ParseError   == [ok |-> FALSE, df |-> NoFrame]

\* upload.py:46-53: pd.read_csv of the bytes; json.loads, then the list as
\* it is and any other value as a list of one record
read_upload(f) ==
  CASE f.shape = "garbage" -> ParseError
    [] f.shape = "table"   -> IF f.ext = "csv" THEN Parsed(f.table) ELSE ParseError
    [] f.ext = "csv"       -> ParseError
    [] f.shape = "columns" ->
         Parsed([columns |-> f.table.columns,
                 rows    |-> << [j \in 1..Len(f.table.columns) |->
                                   ListCell(NRows(f.table))] >>])
    [] OTHER               -> Parsed(f.table)

\* reports.py:55: pd.read_csv of the path, or pd.read_json of it: a list
\* of records gives a row per record, an object of lists a column per key
\* and a row per list item, an object of scalars raises
read_stored(f) ==
  CASE f.shape = "garbage" -> ParseError
    [] f.shape = "table"   -> IF f.ext = "csv" THEN Parsed(f.table) ELSE ParseError
    [] f.ext = "csv"       -> ParseError
    [] f.shape = "object"  -> ParseError
    [] OTHER               -> Parsed(f.table)

\* df.empty: no row or no column
IsEmpty(d) == NRows(d) = 0 \/ Len(d.columns) = 0

\* Optional[float]
Nothing   == <<>>
Some(x)   == <<x>>

\* the body of POST /reports/generate: upload_id (0 for None) and the
\* seven manual scores
Body(upload_id, manual) == [upload_id |-> upload_id, manual |-> manual]
NoBody == Body(0, [m \in MetricSet |-> Nothing])

\* reports.py:64-72: the defaults of the manual scores
DefaultScores ==
  [m \in MetricSet |->
     CASE m = "bias"           -> Fx(3 * (One \div 10))
       [] m = "hallucination"  -> Fx(3 * (One \div 10))
       [] m = "toxicity"       -> Fx(One \div 10)
       [] m = "robustness"     -> Fx(3 * (One \div 10))
       [] m = "explainability" -> Fx(4 * (One \div 10))
       [] m = "data_leakage"   -> Fx(2 * (One \div 10))
       [] m = "drift"          -> Fx(One \div 4)]

\* body.x_score or default: None and 0.0 are falsy
OrDefault(opt, default) ==
  IF Len(opt) = 0 \/ (~opt[1].nan /\ opt[1].x = 0) THEN default ELSE opt[1]

ManualScores(body) == [m \in MetricSet |-> OrDefault(body.manual[m], DefaultScores[m])]

\* A response: status 0 stands for a request that ended without one
Respond(seq, kind, user, status) ==
  [seq |-> seq, kind |-> kind, user |-> user, status |-> status, id |-> 0,
   scores |-> NoScores, items |-> {}, body |-> NoBody, row_count |-> 0]

\* A faulty variant of the query: the user is not part of the condition
AnyRows(table, id, u) == {r \in table : r.id = id}

\* select(...).where(id == ..., user_id == current_user["id"])
OwnRows(table, id, u) == {r \in table : r.id = id /\ r.user_id = u}

\* requests received per run
MaxRequests == 2

Accepts ==
  /\ handler = NoRequest
  /\ requests < MaxRequests

\* compute_all_scores(df) is entered
EnterScoring(d) ==
  /\ df' = d
  /\ snapshot' = d
  /\ pc' = "computing"
  /\ raw' = NoScores
  /\ scores' = NoScores
  /\ detoxify' = NotCalled
  /\ predicted' = <<>>
  /\ ncalls' = 1
  /\ UNCHANGED prev

\* upload.py:36-56: the extension, the parse or the emptiness check ends
\* the request
UploadFileRejected(users, files) ==
  /\ Accepts
  /\ \E u \in users, f \in files : \E parsed \in {read_upload(f)} :
       /\ f.ext \notin {"csv", "json"} \/ ~parsed.ok \/ IsEmpty(parsed.df)
       /\ response' = Respond(requests + 1, "upload", u,
                              IF f.ext \notin {"csv", "json"} THEN 400 ELSE 422)
  /\ requests' = requests + 1
  /\ UNCHANGED <<aggregatorVars, resolverVars, handler, stored, uploads, reports,
                 returned, nextId, analysis>>

\* upload.py:36-61: the file is parsed and compute_all_scores is called
UploadFileScoring(users, files) ==
  /\ Accepts
  /\ \E u \in users, f \in files : \E parsed \in {read_upload(f)} :
       /\ f.ext \in {"csv", "json"}
       /\ parsed.ok
       /\ ~IsEmpty(parsed.df)
       /\ handler' = [kind |-> "upload", seq |-> requests + 1, user |-> u, file |-> f,
                      at |-> "scoring", path |-> 0, id |-> 0, body |-> NoBody]
       /\ EnterScoring(parsed.df)
  /\ requests' = requests + 1
  /\ UNCHANGED <<resolverVars, stored, uploads, reports, response, returned, nextId,
                 analysis>>

\* A faulty variant: the file is saved before the scores are computed, so
\* that it is in the storage when the exception leaves upload_file
UploadFileRaisedAfterSave ==
  /\ handler.kind = "upload"
  /\ handler.at = "scoring"
  /\ pc = "raised"
  /\ response' = Respond(handler.seq, "upload", handler.user, 500)
  /\ stored' = stored \cup {[path |-> nextId, user_id |-> handler.user, file |-> handler.file]}
  /\ nextId' = nextId + 1
  /\ handler' = NoRequest
  /\ UNCHANGED <<aggregatorVars, resolverVars, uploads, reports, returned,
                 requests, analysis>>

\* an exception of compute_all_scores leaves upload_file
UploadFileRaised ==
  /\ handler.kind = "upload"
  /\ handler.at = "scoring"
  /\ pc = "raised"
  /\ response' = Respond(handler.seq, "upload", handler.user, 500)
  /\ handler' = NoRequest
  /\ UNCHANGED <<aggregatorVars, resolverVars, stored, uploads, reports, returned,
                 nextId, requests, analysis>>

\* upload.py:64-66: save_upload
UploadFileSaved ==
  /\ handler.kind = "upload"
  /\ handler.at = "scoring"
  /\ pc = "done"
  /\ stored' = stored \cup {[path |-> nextId, user_id |-> handler.user, file |-> handler.file]}
  /\ handler' = [handler EXCEPT !.at = "saved", !.path = nextId]
  /\ nextId' = nextId + 1
  /\ UNCHANGED <<aggregatorVars, resolverVars, uploads, reports, response, returned,
                 requests, analysis>>

\* upload.py:69-77: the Upload row is added and committed
UploadFileCommitted ==
  /\ handler.kind = "upload"
  /\ handler.at = "saved"
  /\ uploads' = uploads \cup {[id |-> nextId, user_id |-> handler.user,
                               ext |-> handler.file.ext,
                               storage_path |-> handler.path,
                               row_count |-> NRows(df)]}
  /\ handler' = [handler EXCEPT !.at = "committed", !.id = nextId]
  /\ nextId' = nextId + 1
  /\ UNCHANGED <<aggregatorVars, resolverVars, stored, reports, response, returned,
                 requests, analysis>>

\* upload.py:79-86: the response; a NaN among the scores cannot be written
\* as JSON and the response is an error
UploadFileReturned ==
  /\ handler.kind = "upload"
  /\ handler.at = "committed"
  /\ IF \E m \in MetricSet : scores[m].nan
     THEN /\ response' = Respond(handler.seq, "upload", handler.user, 500)
          /\ UNCHANGED returned
     ELSE /\ response' = [Respond(handler.seq, "upload", handler.user, 200)
                            EXCEPT !.id = handler.id, !.scores = scores,
                                   !.row_count = NRows(df)]
          /\ returned' = returned \cup {[id |-> handler.id, scores |-> scores,
                                         detoxify |-> detoxify]}
  /\ handler' = NoRequest
  /\ UNCHANGED <<aggregatorVars, resolverVars, stored, uploads, reports, nextId,
                 requests, analysis>>

\* the request is cancelled, wherever it is: nothing of it runs any more
RequestCancelled ==
  /\ handler.kind # "none"
  /\ pc' = IF pc \in {"computing", "hung"} THEN "cancelled" ELSE pc
  /\ response' = Respond(handler.seq, handler.kind, handler.user, 0)
  /\ handler' = NoRequest
  /\ UNCHANGED <<df, snapshot, raw, scores, detoxify, predicted, ncalls, prev,
                 resolverVars, stored, uploads, reports, returned, nextId, requests,
                 analysis>>

\* the upload ids a request may name: those of the table, and one of no row
UploadIds == {up.id : up \in uploads} \cup {nextId}
ReportIds == {r.id : r \in reports} \cup {nextId}

\* reports.py:38-45: no upload of this id belongs to the user
GenerateReportNotFound(users) ==
  /\ Accepts
  /\ \E u \in users, id \in UploadIds :
       /\ OwnRows(uploads, id, u) = {}
       /\ response' = [Respond(requests + 1, "generate", u, 404)
                         EXCEPT !.body = Body(id, NoBody.manual)]
  /\ requests' = requests + 1
  /\ UNCHANGED <<aggregatorVars, resolverVars, handler, stored, uploads, reports,
                 returned, nextId, analysis>>

\* the file of the storage path
StoredFile(path) == (CHOOSE s \in stored : s.path = path).file

\* reports.py:52-60: reading the stored file raises
GenerateReportUnreadable(users) ==
  /\ Accepts
  /\ \E u \in users, id \in UploadIds : \E up \in OwnRows(uploads, id, u) :
       /\ ~read_stored(StoredFile(up.storage_path)).ok
       /\ response' = [Respond(requests + 1, "generate", u, 500)
                         EXCEPT !.body = Body(id, NoBody.manual)]
  /\ requests' = requests + 1
  /\ UNCHANGED <<aggregatorVars, resolverVars, handler, stored, uploads, reports,
                 returned, nextId, analysis>>

\* reports.py:52-56: the stored file is read and compute_all_scores is
\* called on it
GenerateReportScoring(users) ==
  /\ Accepts
  /\ \E u \in users, id \in UploadIds : \E up \in OwnRows(uploads, id, u) :
     \E parsed \in {read_stored(StoredFile(up.storage_path))} :
       /\ parsed.ok
       /\ handler' = [kind |-> "generate", seq |-> requests + 1, user |-> u,
                      file |-> StoredFile(up.storage_path), at |-> "scoring",
                      path |-> up.storage_path, id |-> id,
                      body |-> Body(id, NoBody.manual)]
       /\ EnterScoring(parsed.df)
  /\ requests' = requests + 1
  /\ UNCHANGED <<resolverVars, stored, uploads, reports, response, returned, nextId,
                 analysis>>

\* reports.py:58-60: an exception of compute_all_scores
GenerateReportRaised ==
  /\ handler.kind = "generate"
  /\ handler.at = "scoring"
  /\ pc = "raised"
  /\ response' = [Respond(handler.seq, "generate", handler.user, 500)
                    EXCEPT !.body = handler.body]
  /\ handler' = NoRequest
  /\ UNCHANGED <<aggregatorVars, resolverVars, stored, uploads, reports, returned,
                 nextId, requests, analysis>>

\* round((1 - avg_score) * 100), to the nearest percent
Readiness(avg) == (One - avg.x + (One \div 200)) \div (One \div 100)

\* reports.py:87-120: the analysis, the report, its row and the response.
\* With a NaN among the scores round() raises in build_report: no row.
FinishReport(seq, u, body, sc, row_count, apis) ==
  \E avg \in {MeanOf([i \in 1..Len(Metrics) |-> sc[Metrics[i]]])} :
    IF avg.nan
    THEN /\ response' = [Respond(seq, "generate", u, 500) EXCEPT !.body = body]
         /\ UNCHANGED <<reports, nextId>>
    ELSE \E api \in apis : \E sorted_risks \in SortedRisks(sc) :
           /\ reports' = reports \cup
                {[id |-> nextId, user_id |-> u, scores |-> sc,
                  overall_risk |-> risk_level(avg),
                  readiness_pct |-> Readiness(avg),
                  row_count |-> row_count,
                  ai_analysis |-> generate_ai_analysis(sc, sorted_risks, api).val]}
           /\ nextId' = nextId + 1
           /\ response' = [Respond(seq, "generate", u, 200)
                             EXCEPT !.id = nextId, !.scores = sc, !.body = body,
                                    !.row_count = row_count]

\* reports.py:56-120 after compute_all_scores has returned
GenerateReportRescored(apis) ==
  /\ handler.kind = "generate"
  /\ handler.at = "scoring"
  /\ pc = "done"
  /\ FinishReport(handler.seq, handler.user, handler.body, scores, NRows(df), apis)
  /\ handler' = NoRequest
  /\ UNCHANGED <<aggregatorVars, resolverVars, stored, uploads, returned, requests,
                 analysis>>

\* reports.py:62-120: no upload_id, the manual scores
GenerateReportManual(users, bodies, apis) ==
  /\ Accepts
  /\ \E u \in users, body \in bodies :
       /\ body.upload_id = 0
       /\ FinishReport(requests + 1, u, body, ManualScores(body), 0, apis)
  /\ requests' = requests + 1
  /\ UNCHANGED <<aggregatorVars, resolverVars, handler, stored, uploads, returned,
                 analysis>>

\* reports.py:123-144: the ids of the user's reports
ListReports(users) ==
  /\ Accepts
  /\ \E u \in users :
       response' = [Respond(requests + 1, "list", u, 200)
                      EXCEPT !.items = {r.id : r \in {x \in reports : x.user_id = u}}]
  /\ requests' = requests + 1
  /\ UNCHANGED <<aggregatorVars, resolverVars, handler, stored, uploads, reports,
                 returned, nextId, analysis>>

\* reports.py:147-159
GetReport(users) ==
  /\ Accepts
  /\ \E u \in users, id \in ReportIds : \E rows \in {OwnRows(reports, id, u)} :
       response' = IF rows = {}
                   THEN [Respond(requests + 1, "get", u, 404) EXCEPT !.id = id]
                   ELSE [Respond(requests + 1, "get", u, 200)
                           EXCEPT !.id = id,
                                  !.scores = (CHOOSE r \in rows : TRUE).scores,
                                  !.row_count = (CHOOSE r \in rows : TRUE).row_count]
  /\ requests' = requests + 1
  /\ UNCHANGED <<aggregatorVars, resolverVars, handler, stored, uploads, reports,
                 returned, nextId, analysis>>

\* reports.py:162-176
DeleteReport(users) ==
  /\ Accepts
  /\ \E u \in users, id \in ReportIds : \E rows \in {OwnRows(reports, id, u)} :
       /\ response' = [Respond(requests + 1, "delete", u,
                               IF rows = {} THEN 404 ELSE 200) EXCEPT !.id = id]
       /\ reports' = reports \ rows
  /\ requests' = requests + 1
  /\ UNCHANGED <<aggregatorVars, resolverVars, handler, stored, uploads, returned,
                 nextId, analysis>>

\* the service starts with empty tables and an empty storage
ServiceStarts ==
  /\ ServiceIdle
  /\ df = NoFrame
  /\ snapshot = NoFrame
  /\ pc = "idle"
  /\ raw = NoScores
  /\ scores = NoScores
  /\ detoxify = NotCalled
  /\ predicted = <<>>
  /\ ncalls = 0
  /\ prev = [scores |-> NoScores, detoxify |-> NotCalled]
  /\ candidates = <<>>
  /\ found = NotResolved

\* compute_all_scores, step by step
ComputeAllScoresSteps ==
  \/ BiasStep(TRUE)
  \/ HallucinationStep(TRUE)
  \/ ToxicityStep(TRUE)
  \/ ToxicityRaises(TRUE)
  \/ ToxicityHangs(TRUE)
  \/ RobustnessStep(TRUE)
  \/ ExplainabilityStep(TRUE)
  \/ DataLeakageStep(TRUE)
  \/ DriftStep(TRUE)
  \/ ReturnScores

\* The files one user uploads: two scored rows with texts, one row with one
\* confidence, a JSON object of scalars, a JSON object of an empty list, a
\* CSV of a header alone, a file of another extension, bytes that are no
\* JSON
ScoredTexts ==
  [columns |-> PercentAndText.columns,
   rows    |-> << <<IntCell(55), StrCell(<<"I", " ", "h", "a", "t", "e", " ", "t", "h", "i", "s">>)>>,
                  <<IntCell(95), StrCell(<<"a", "l", "l", " ", "f", "i", "n", "e">>)>> >>]
OneConfidence ==
  [columns |-> ConfidenceOnly.columns, rows |-> << <<FloatCell(95)>> >>]
OneDecision ==
  [columns |-> << <<"d", "e", "c", "i", "s", "i", "o", "n">> >>,
   rows    |-> << <<StrCell(<<"y", "e", "s">>)>> >>]
NotesOnly(rows) == [columns |-> Unrecognized.columns, rows |-> rows]
UploadedFiles ==
  { File("csv",  "table",   ScoredTexts),
    File("csv",  "table",   OneConfidence),
    File("json", "object",  OneDecision),
    File("json", "columns", NotesOnly(<<>>)),
    File("csv",  "table",   NotesOnly(<<>>)),
    File("txt",  "table",   ScoredTexts),
    File("json", "garbage", NoFrame) }

\* One user uploads files and generates reports from uploads; requests may
\* be cancelled
Uploader == {"u1"}
InitUpload == ServiceStarts
NextUpload ==
  \/ UploadFileRejected(Uploader, UploadedFiles)
  \/ UploadFileScoring(Uploader, UploadedFiles)
  \/ ComputeAllScoresSteps
  \/ UploadFileRaised
  \/ UploadFileSaved
  \/ UploadFileCommitted
  \/ UploadFileReturned
  \/ RequestCancelled
  \/ GenerateReportNotFound(Uploader)
  \/ GenerateReportUnreadable(Uploader)
  \/ GenerateReportScoring(Uploader)
  \/ GenerateReportRaised
  \/ GenerateReportRescored(ApiBehaviours)
SpecUpload == InitUpload /\ [][NextUpload]_vars

\* Two users upload one file of one text, generate reports from uploads and from
\* manual scores, and list, read and delete reports; no API key is
\* configured
Users == {"u1", "u2"}
OneResponse ==
  [columns |-> << <<"r", "e", "s", "p", "o", "n", "s", "e">> >>,
   rows    |-> << <<StrCell(<<"o", "k">>)>> >>]
SharedFiles == { File("csv", "table", OneResponse) }
ManualBodies ==
  { NoBody,
    Body(0, [m \in MetricSet |-> IF m = "bias" THEN Some(Fx(0))
                                  ELSE IF m = "drift" THEN Nothing
                                  ELSE Some(Fx(One \div 2))]) }
InitReports == ServiceStarts
NextReports ==
  \/ UploadFileScoring(Users, SharedFiles)
  \/ ComputeAllScoresSteps
  \/ UploadFileRaised
  \/ UploadFileSaved
  \/ UploadFileCommitted
  \/ UploadFileReturned
  \/ GenerateReportNotFound(Users)
  \/ GenerateReportScoring(Users)
  \/ GenerateReportRaised
  \/ GenerateReportRescored({NoKey})
  \/ GenerateReportManual(Users, ManualBodies, {NoKey})
  \/ ListReports(Users)
  \/ GetReport(Users)
  \/ DeleteReport(Users)
SpecReports == InitReports /\ [][NextReports]_vars

---------------------------------------------------------------------------
(* Properties                                                              *)

\* C1: once compute_all_scores has returned, each of the seven values is a
\* number s with 0.0 <= s <= 1.0: none is NaN, negative or above 1.
C1_ScoresInUnitInterval ==
  pc = "done" =>
    \A k \in DOMAIN scores :
      ~scores[k].nan /\ scores[k].x >= 0 /\ scores[k].x <= One

\* C2: compute_all_scores never raises, and what it returns has exactly
\* the seven metric keys.
C2_ReturnsCompleteScoreSet ==
  /\ pc # "raised"
  /\ pc = "done" => DOMAIN scores = MetricSet

\* C3: when the classifier is not installed, fails or does not answer,
\* compute_toxicity_score catches it and returns the keyword rate of the
\* collected texts; nothing propagates to the caller.
C3_ClassifierFailureCaught ==
  detoxify.kind \in {"absent", "error", "stall"} =>
    /\ pc \notin {"raised", "hung"}
    /\ "toxicity" \in DOMAIN raw
    /\ raw["toxicity"] = KeywordRate(ToxicityTexts(snapshot))

\* C4: a classifier that never responds is abandoned: whenever the
\* classifier has stalled, the call of compute_all_scores has returned its
\* ScoreSet or has a step left to take (it is never blocked for good).
C4_StalledClassifierAbandoned ==
  detoxify.kind = "stall" =>
    \/ pc = "done" /\ DOMAIN scores = MetricSet
    \/ ENABLED Next

\* The value of metric m on frame d when the Detoxify package behaves as dx
ComputeMetric(m, d, dx) ==
  CASE m = "bias"           -> compute_bias_score(d)
    [] m = "hallucination"  -> compute_hallucination_score(d)
    [] m = "toxicity"       -> compute_toxicity_score(d, dx).val
    [] m = "robustness"     -> compute_robustness_score(d)
    [] m = "explainability" -> compute_explainability_score(d)
    [] m = "data_leakage"   -> compute_data_leakage_score(d)
    [] m = "drift"          -> compute_drift_score(d)

\* the frame the i-th computer of the dict literal is handed
RECURSIVE FrameSeenBy(_, _)
FrameSeenBy(i, d) ==
  IF i = 1 THEN d ELSE DfAfter(Metrics[i - 1], FrameSeenBy(i - 1, d))

\* the seven values of the dict literal of compute_all_scores, evaluated
\* in source order on d
SequentialValues(d, dx) ==
  [m \in MetricSet |->
     ComputeMetric(m, FrameSeenBy(CHOOSE i \in 1..Len(Metrics) : Metrics[i] = m, d), dx)]

Reorderings(columns) ==
  {[i \in 1..Len(columns) |-> columns[p[i]]] :
     p \in {q \in [1..Len(columns) -> 1..Len(columns)] :
              \A i, j \in 1..Len(columns) : q[i] = q[j] => i = j}}

\* the aliases of a candidate list that some column matches, ignoring case
MatchedAliases(columns, cands) ==
  {i \in 1..Len(cands) :
     \E j \in 1..Len(columns) : Lower(columns[j]) = Lower(cands[i])}

\* C8: _find_col returns a column matching, ignoring case, the first alias
\* in candidate order that any column matches, and None when no alias
\* matches; the result is the same for every order of the columns, and
\* the same after adding a column that matches no alias.
C8_FirstAliasWhateverColumnOrder ==
  found.done =>
    LET hits == MatchedAliases(df.columns, candidates)
    IN  /\ (found.col = None) <=> (hits = {})
        /\ hits # {} =>
             /\ \E j \in 1..Len(df.columns) : df.columns[j] = found.col
             /\ Lower(found.col)
                  = Lower(candidates[CHOOSE i \in hits : \A k \in hits : i <= k])
        /\ \A c \in Reorderings(df.columns) : find_in(c, candidates) = found.col
        /\ \A extra \in ColumnNames :
             MatchedAliases(<<extra>>, candidates) = {}
               => find_in(Append(df.columns, extra), candidates) = found.col

\* the positive lexicon of the decision column
C9_Lexicon ==
  { <<"a", "p", "p", "r", "o", "v", "e", "d">>, <<"y", "e", "s">>, <<"a", "c", "c", "e", "p", "t">>, <<"1">>, <<"t", "r", "u", "e">>, <<"p", "o", "s", "i", "t", "i", "v", "e">>, <<"p", "a", "s", "s">> }

\* the trimmed, lowercased text of row r of column col
C9_Label(d, col, r) ==
  Strip(Lower(AsStr(d.rows[r][CHOOSE j \in 1..Len(d.columns) : d.columns[j] = col])))

\* the rows of group g of column col, and the positive rows among them
C9_RowsOf(d, col, g) == {r \in 1..NRows(d) : C9_Label(d, col, r) = g}
C9_PositiveIn(d, decision_col, rs) ==
  Cardinality({r \in rs : C9_Label(d, decision_col, r) \in C9_Lexicon})

\* the groups of at least 5 rows of a protected column
C9_Qualifying(d, col) ==
  {g \in {C9_Label(d, col, r) : r \in 1..NRows(d)} :
     Cardinality(C9_RowsOf(d, col, g)) >= 5}

\* the families (1 gender, 2 race, 3 age) with two or more such groups
C9_FamilyAliases == <<GENDER_COLS, RACE_COLS, AGE_COLS>>
C9_Families(d) ==
  {f \in 1..3 :
     /\ _find_col(d, C9_FamilyAliases[f]) # None
     /\ Cardinality(C9_Qualifying(d, _find_col(d, C9_FamilyAliases[f]))) >= 2}

\* highest minus lowest positive rate of a family, as the exact fraction
\* <<numerator, denominator>>; a tally is <<group, positive rows, rows>>
C9_Gap(d, decision_col, f) ==
  LET col     == _find_col(d, C9_FamilyAliases[f])
      tallies == {<<g, C9_PositiveIn(d, decision_col, C9_RowsOf(d, col, g)),
                    Cardinality(C9_RowsOf(d, col, g))>> : g \in C9_Qualifying(d, col)}
      hi      == CHOOSE t \in tallies : \A u \in tallies : u[2] * t[3] <= t[2] * u[3]
      lo      == CHOOSE t \in tallies : \A u \in tallies : t[2] * u[3] <= u[2] * t[3]
  IN  <<hi[2] * lo[3] - lo[2] * hi[3], hi[3] * lo[3]>>

\* min(mean(gaps) / 0.4, 1.0) in millionths
C9_Expected(d, decision_col) ==
  LET F      == C9_Families(d)
      gap(f) == IF f \in F
                THEN LET q == C9_Gap(d, decision_col, f) IN Frac(q[1], q[2]).x
                ELSE 0
      total  == gap(1) + gap(2) + gap(3)
      scaled == (5 * total + Cardinality(F)) \div (2 * Cardinality(F))
  IN  IF scaled > One THEN One ELSE scaled

\* C9: with a decision column and at least one family of two or more
\* groups of 5 rows or more, compute_bias_score is min(mean(gaps) / 0.4,
\* 1.0) over the gaps of those families, counting only the groups of 5
\* rows or more; gaps of 0.4 and above give 1.0 and a single gap of 0.2
\* gives 0.5.
C9_BiasIsNormalisedMeanGap ==
  LET decision_col == _find_col(snapshot, DECISION_COLS)
      F            == C9_Families(snapshot)
      gap          == [f \in F |-> C9_Gap(snapshot, decision_col, f)]
  IN  ("bias" \in DOMAIN raw /\ decision_col # None /\ F # {}) =>
        /\ ~raw["bias"].nan
        /\ Abs(raw["bias"].x - C9_Expected(snapshot, decision_col)) <= 5
        /\ (\A f \in F : 5 * gap[f][1] >= 2 * gap[f][2]) => raw["bias"].x = One
        /\ (\E f \in F : F = {f} /\ 5 * gap[f][1] = gap[f][2])
             => raw["bias"].x = One \div 2

\* the bias of a dataset whose only gap is 0.2 between two groups of 5
\* rows, with decisions that need trimming and lowercasing, has been
\* computed
C9_Witness ==
  LET decision_col == _find_col(snapshot, DECISION_COLS)
  IN  /\ "bias" \in DOMAIN raw
      /\ decision_col # None
      /\ C9_Families(snapshot) = {1}
      /\ 5 * C9_Gap(snapshot, decision_col, 1)[1] = C9_Gap(snapshot, decision_col, 1)[2]
      /\ \E r \in 1..NRows(snapshot) :
           /\ AsStr(ColumnOf(snapshot, decision_col)[r]) \notin C9_Lexicon
           /\ C9_Label(snapshot, decision_col, r) \in C9_Lexicon

\* C10: compute_bias_score falls back exactly when no decision column is
\* resolved or no family has two groups of 5 rows or more; the fallback is
\* min(std(confidence) * 2, 1.0) with a confidence column and 0.3 without,
\* and is always a defined number.
C10_FallbackDefined ==
  LET decision_col == _find_col(snapshot, DECISION_COLS)
      conf_col     == _find_col(snapshot, CONFIDENCE_COLS)
  IN  ( /\ "bias" \in DOMAIN raw
        /\ decision_col = None \/ C9_Families(snapshot) = {} )
      => /\ ~raw["bias"].nan
         /\ conf_col = None => raw["bias"] = Fx(3 * (One \div 10))
         /\ conf_col # None =>
              raw["bias"] = PyMin(Times(Std(Confidence(snapshot, conf_col)), 2), Fx(One))

\* the trimmed, lowercased text of row r of column col
C11_Text(d, col, r) == Lower(Strip(AsStr(ColumnOf(d, col)[r])))

\* the rows whose decision and ground truth differ as such texts
C11_Differing(d, decision_col, ground_truth_col) ==
  {r \in 1..NRows(d) :
     C11_Text(d, decision_col, r) # C11_Text(d, ground_truth_col, r)}

\* C11: with a decision column and a ground-truth column resolved,
\* compute_hallucination_score is the fraction of rows whose trimmed,
\* lowercased decision differs from the trimmed, lowercased ground truth
\* (to the nearest millionth): 0.0 when every row agrees, 1.0 when every
\* row differs; a difference of case or of surrounding whitespace is no
\* difference.
C11_MismatchFraction ==
  LET decision_col     == _find_col(snapshot, DECISION_COLS)
      ground_truth_col == _find_col(snapshot, GROUND_TRUTH_COLS)
  IN  ( /\ "hallucination" \in DOMAIN raw
        /\ decision_col # None
        /\ ground_truth_col # None )
      => LET k == Cardinality(C11_Differing(snapshot, decision_col, ground_truth_col))
             n == NRows(snapshot)
         IN  /\ ~raw["hallucination"].nan
             /\ 2 * Abs(raw["hallucination"].x * n - k * One) <= n
             /\ k = 0 => raw["hallucination"].x = 0
             /\ k = n => raw["hallucination"].x = One

\* the mismatch rate of a dataset has been computed in which some rows
\* differ, and a row agrees only after trimming and lowercasing
C11_Witness ==
  LET decision_col     == _find_col(snapshot, DECISION_COLS)
      ground_truth_col == _find_col(snapshot, GROUND_TRUTH_COLS)
  IN  /\ "hallucination" \in DOMAIN raw
      /\ decision_col # None
      /\ ground_truth_col # None
      /\ raw["hallucination"].x > 0
      /\ raw["hallucination"].x < One
      /\ \E r \in 1..NRows(snapshot) :
           /\ AsStr(ColumnOf(snapshot, decision_col)[r])
                # AsStr(ColumnOf(snapshot, ground_truth_col)[r])
           /\ r \notin C11_Differing(snapshot, decision_col, ground_truth_col)

\* the confidence of a cell, in hundredths, as a sequence of zero or one
\* number: nothing for a missing or unparseable cell
C12_Hundredths(c) ==
  CASE c.k \in {"int", "float"} -> <<c.v>>
    [] c.k = "nan"              -> <<>>
    [] c.k = "str"              -> IF ParseNum(c.s).ok THEN <<ParseNum(c.s).v>> ELSE <<>>

\* the rows of column col whose confidence is below 0.6, the column being
\* divided by 100 when its maximum exceeds 1
C12_LowRows(d, col) ==
  LET conf  == [r \in 1..NRows(d) |-> C12_Hundredths(ColumnOf(d, col)[r])]
      known == {r \in 1..NRows(d) : Len(conf[r]) = 1}
      pct   == \E r \in known : conf[r][1] > 100
  IN  {r \in known : IF pct THEN conf[r][1] < 6000 ELSE conf[r][1] < 60}

\* C12: when decision or ground truth is not resolved,
\* compute_hallucination_score is the fraction of the rows whose confidence
\* (divided by 100 when the column's maximum exceeds 1) is below 0.6 if a
\* confidence column is resolved, and 0.3 otherwise.
C12_LowConfidenceFraction ==
  LET decision_col     == _find_col(snapshot, DECISION_COLS)
      ground_truth_col == _find_col(snapshot, GROUND_TRUTH_COLS)
      conf_col         == _find_col(snapshot, CONFIDENCE_COLS)
  IN  ( /\ "hallucination" \in DOMAIN raw
        /\ decision_col = None \/ ground_truth_col = None )
      => /\ conf_col = None => raw["hallucination"] = Fx(3 * (One \div 10))
         /\ conf_col # None =>
              LET k == Cardinality(C12_LowRows(snapshot, conf_col))
                  n == NRows(snapshot)
              IN  /\ ~raw["hallucination"].nan
                  /\ 2 * Abs(raw["hallucination"].x * n - k * One) <= n

\* every alias list the computers resolve
C13_AliasLists ==
  {DECISION_COLS, CONFIDENCE_COLS, GROUND_TRUTH_COLS, TEXT_OUTPUT_COLS,
   GENDER_COLS, RACE_COLS, AGE_COLS, PROMPT_COLS, EXPLANATION_COLS}

\* no column of d is, ignoring case, an alias of any field
C13_NothingMatches(d) ==
  \A j \in 1..Len(d.columns) : \A aliases \in C13_AliasLists :
    \A i \in 1..Len(aliases) : Lower(d.columns[j]) # aliases[i]

\* the constants of the seven computers, in millionths
C13_Defaults(n) ==
  [bias |-> 300000, hallucination |-> 300000, toxicity |-> 100000,
   robustness |-> 400000, explainability |-> 750000, data_leakage |-> 100000,
   drift |-> IF n < 20 THEN 200000 ELSE 250000]

\* C13: on a dataset none of whose columns matches an alias, every computer
\* returns its constant (robustness 0.4, explainability 0.75, toxicity 0.1,
\* data_leakage 0.1, bias 0.3, hallucination 0.3, drift 0.2 below 20 rows and
\* 0.25 from 20 rows on) whatever the rows hold, the call returns, and the
\* ScoreSet returned holds exactly these values.
C13_UnrecognizedGetsDefaults ==
  C13_NothingMatches(snapshot) =>
    /\ pc \in {"computing", "done"}
    /\ \A m \in DOMAIN raw : raw[m] = Fx(C13_Defaults(NRows(snapshot))[m])
    /\ pc = "done" =>
         scores = [m \in MetricSet |-> Fx(C13_Defaults(NRows(snapshot))[m])]

\* a call has returned on a dataset of 20 rows or more without any
\* recognised column, one of whose cells holds an email address
C13_Witness ==
  /\ pc = "done"
  /\ C13_NothingMatches(snapshot)
  /\ NRows(snapshot) >= 20
  /\ \E r \in 1..NRows(snapshot) :
       SearchAny(pii_patterns, AsStr(snapshot.rows[r][1]))

\* the position of the resolved text column, and the text of its row r
C14_TextColumn(d) ==
  CHOOSE j \in 1..Len(d.columns) : d.columns[j] = _find_col(d, TEXT_OUTPUT_COLS)
C14_TextOf(d, c, r) == AsStr(d.rows[r][c])

\* the rows whose text is collected: not blank, not a missing value
C14_Collected(d, c) ==
  {r \in 1..NRows(d) :
     \E t \in {C14_TextOf(d, c, r)} :
       /\ \E i \in 1..Len(t) : t[i] \notin Whitespace
       /\ Lower(t) # <<"n", "a", "n">>}

\* t holds word w as a whole word, whatever the case
C14_HasWord(t, w) ==
  \E i \in 1..(Len(t) - Len(w) + 1) :
    /\ Lower(SubSeq(t, i, i + Len(w) - 1)) = w
    /\ i = 1 \/ t[i - 1] \notin WordChars
    /\ i + Len(w) - 1 = Len(t) \/ t[i + Len(w)] \notin WordChars

\* the lexicons (1 hate, 2 insult, 3 violence) of which t holds a word
C14_Lexicons(t) ==
  {l \in 1..3 : \E w \in <<hate_terms, insult_terms, violence_terms>>[l] : C14_HasWord(t, w)}

\* C14: on the keyword fallback, compute_toxicity_score is the number of
\* collected texts holding a word of at least one of the three lexicons,
\* whatever the case, over the number of collected texts; a text matching
\* several words or lexicons counts once.
C14_KeywordFraction ==
  ("toxicity" \in DOMAIN raw /\ detoxify = Absent) =>
    \A c \in {C14_TextColumn(snapshot)} :
      \A kept \in {C14_Collected(snapshot, c)} :
        \A k \in {Cardinality({r \in kept : C14_Lexicons(C14_TextOf(snapshot, c, r)) # {}})} :
          /\ kept # {}
          /\ ~raw["toxicity"].nan
          /\ 2 * Abs(raw["toxicity"].x * Cardinality(kept) - k * One) <= Cardinality(kept)
          /\ raw["toxicity"].x <= One
          /\ k = Cardinality(kept) => raw["toxicity"].x = One

\* the keyword rate has been computed on a dataset with a text of two
\* lexicons or more, next to a text without a lexicon word or a row that
\* is not collected
C14_Witness ==
  /\ "toxicity" \in DOMAIN raw
  /\ detoxify = Absent
  /\ raw["toxicity"].x > 0
  /\ \E r \in C14_Collected(snapshot, C14_TextColumn(snapshot)) :
       Cardinality(C14_Lexicons(C14_TextOf(snapshot, C14_TextColumn(snapshot), r))) >= 2
  /\ \/ raw["toxicity"].x < One
     \/ C14_Collected(snapshot, C14_TextColumn(snapshot)) # 1..NRows(snapshot)

\* C15: model.predict is never handed more than 200 texts; when it is
\* called it is handed the first min(200, n) of the n collected texts, in
\* dataset order.
C15_ClassifierInputCapped ==
  /\ Len(predicted) <= 200
  /\ (detoxify.kind \in {"scores", "error", "stall"}) =>
       \A texts \in {ToxicityTexts(snapshot)} :
         /\ detoxify.kind = "scores" =>
              Len(predicted) = IF Len(texts) < 200 THEN Len(texts) ELSE 200
         /\ Len(predicted) > 0 =>
              Len(predicted) = IF Len(texts) < 200 THEN Len(texts) ELSE 200
         /\ \A j \in 1..Len(predicted) : predicted[j] = texts[j]
  /\ detoxify.kind \in {"none", "absent"} => predicted = <<>>

\* the classifier has answered on a dataset of more than 200 collected
\* texts, not all the same
C15_Witness ==
  /\ detoxify.kind = "scores"
  /\ Len(predicted) = 200
  /\ Cardinality(C14_Collected(snapshot, C14_TextColumn(snapshot))) > 200
  /\ predicted[1] # predicted[200]

\* t holds an email address: a local part, @, a domain, a dot and two
\* letters or more
C18_HasEmail(t) ==
  \E i \in 2..Len(t) : \E j \in (i + 2)..(Len(t) - 2) :
    /\ t[i] = "@"
    /\ t[i - 1] \in EmailLocal
    /\ \A m \in (i + 1)..(j - 1) : t[m] \in EmailDomain
    /\ t[j] = "."
    /\ t[j + 1] \in Letters
    /\ t[j + 2] \in Letters

\* the PII patterns (1 email .. 7 credentials) that match t somewhere
C18_Shapes(t) == {p \in 1..Len(pii_patterns) : Search(pii_patterns[p], t)}

\* C18: with a text column resolved, compute_data_leakage_score is the
\* number of rows whose text matches at least one of the seven PII patterns
\* over the number of rows; a row matching several patterns counts once,
\* a row with a missing text stays in the denominator, and 4 rows of which
\* exactly 1 holds an email address and none any other PII shape give 0.25.
\* (A tally is <<row, patterns matched, email address held>>.)
C18_MatchedRowsOverRows ==
  ("data_leakage" \in DOMAIN raw /\ _find_col(snapshot, TEXT_OUTPUT_COLS) # None) =>
    \A c \in {C14_TextColumn(snapshot)} :
      \A tallies \in {{<<r, C18_Shapes(C14_TextOf(snapshot, c, r)),
                         C18_HasEmail(C14_TextOf(snapshot, c, r))>> :
                        r \in 1..NRows(snapshot)}} :
        \A k \in {Cardinality({t \in tallies : t[2] # {}})} :
          /\ ~raw["data_leakage"].nan
          /\ 2 * Abs(raw["data_leakage"].x * NRows(snapshot) - k * One) <= NRows(snapshot)
          /\ \A t \in tallies : (1 \in t[2]) <=> t[3]
          /\ ( /\ NRows(snapshot) = 4
               /\ Cardinality({t \in tallies : t[3]}) = 1
               /\ \A t \in tallies : t[2] \subseteq {1} )
             => raw["data_leakage"].x = One \div 4

\* the leakage of 4 rows has been computed, exactly 1 of them with an
\* email address and no other PII shape in any
C18_Witness ==
  /\ "data_leakage" \in DOMAIN raw
  /\ _find_col(snapshot, TEXT_OUTPUT_COLS) # None
  /\ NRows(snapshot) = 4
  /\ Cardinality({r \in 1..4 :
                    C18_HasEmail(C14_TextOf(snapshot, C14_TextColumn(snapshot), r))}) = 1
  /\ \A r \in 1..4 :
       C18_Shapes(C14_TextOf(snapshot, C14_TextColumn(snapshot), r)) \subseteq {1}
  /\ raw["data_leakage"].x = One \div 4

\* the pairs (prompt key, decision) of the rows with a decision, and the
\* prompt keys of all rows, the key of a row being its prompt as text,
\* trimmed and lowercased when normalized is TRUE
C16_Keys(d, prompt_col, normalized) ==
  {IF normalized THEN Lower(Strip(AsStr(ColumnOf(d, prompt_col)[r])))
                 ELSE AsStr(ColumnOf(d, prompt_col)[r]) : r \in 1..NRows(d)}
C16_Decided(d, prompt_col, decision_col, normalized) ==
  {<<IF normalized THEN Lower(Strip(AsStr(ColumnOf(d, prompt_col)[r])))
                   ELSE AsStr(ColumnOf(d, prompt_col)[r]),
     DistinctKey(ColumnOf(d, decision_col)[r])>> :
     r \in {q \in 1..NRows(d) : ColumnOf(d, decision_col)[q].k # "nan"}}

\* the fraction of the prompt groups with more than one distinct decision
C16_Signal(d, prompt_col, decision_col, normalized) ==
  \* bound once: the keys and the decided pairs
  LET pick == CHOOSE kd \in { <<C16_Keys(d, prompt_col, normalized),
                                C16_Decided(d, prompt_col, decision_col, normalized)>> } : TRUE
      keys    == pick[1]
      decided == pick[2]
  IN  Frac(Cardinality({g \in keys :
                          Cardinality({p \in decided : p[1] = g}) > 1}),
           Cardinality(keys))

\* C16: with a prompt-like column and a decision column resolved, the
\* non-determinism signal of compute_robustness_score is the fraction of
\* prompt groups with more than one distinct decision, the rows being
\* grouped by the trimmed, lowercased prompt text, so that prompts that
\* differ only in case or surrounding whitespace are one group (without a
\* confidence column the signal is the score).
C16_GroupedByNormalizedPrompt ==
  \A prompt_col \in {_find_col(snapshot, PROMPT_COLS)} :
  \A decision_col \in {_find_col(snapshot, DECISION_COLS)} :
    ( /\ "robustness" \in DOMAIN raw
      /\ prompt_col # None
      /\ decision_col # None )
    => \A signal \in {C16_Signal(snapshot, prompt_col, decision_col, TRUE)} :
         /\ NonDeterministicRate(snapshot, prompt_col, decision_col) = signal
         /\ _find_col(snapshot, CONFIDENCE_COLS) = None => raw["robustness"] = signal

\* C16, amended: the rows are grouped by the prompt as text, as it is:
\* prompts that differ in case or surrounding whitespace are different
\* groups.
C16_GroupedByPromptText ==
  \A prompt_col \in {_find_col(snapshot, PROMPT_COLS)} :
  \A decision_col \in {_find_col(snapshot, DECISION_COLS)} :
    ( /\ "robustness" \in DOMAIN raw
      /\ prompt_col # None
      /\ decision_col # None )
    => \A signal \in {C16_Signal(snapshot, prompt_col, decision_col, FALSE)} :
         /\ NonDeterministicRate(snapshot, prompt_col, decision_col) = signal
         /\ _find_col(snapshot, CONFIDENCE_COLS) = None => raw["robustness"] = signal

\* robustness has been computed on a dataset in which the same prompt has
\* two decisions only once case and whitespace are ignored: every prompt
\* as written has one decision
C16_Witness ==
  \A prompt_col \in {_find_col(snapshot, PROMPT_COLS)} :
  \A decision_col \in {_find_col(snapshot, DECISION_COLS)} :
    /\ "robustness" \in DOMAIN raw
    /\ prompt_col # None
    /\ decision_col # None
    /\ _find_col(snapshot, CONFIDENCE_COLS) = None
    /\ C16_Signal(snapshot, prompt_col, decision_col, TRUE).x > 0
    /\ raw["robustness"].x = 0

\* what compute_explainability_score returns past the explanation branch
C17_Remaining(d) ==
  LET conf_col == _find_col(d, CONFIDENCE_COLS)
  IN  IF conf_col = None THEN Fx(3 * (One \div 4))
      ELSE LET conf == Scaled(Confidence(d, conf_col))
           IN  PyMin(Plus(Over(Times(FracBetween(conf, 45, 55), 6), 10),
                          PyMin(Times(Std(conf), 2), Fx(One \div 2))),
                     Fx(One))

\* the rows whose trimmed explanation is longer than 5 characters
C17_Explained(d, col) ==
  {r \in 1..NRows(d) : Len(Strip(AsStr(ColumnOf(d, col)[r]))) > 5}

\* C17: with an explanation-like column resolved,
\* compute_explainability_score returns 0.15, whatever the confidence
\* column holds, when at least 80% of the rows (exactly 80% included) have
\* a trimmed explanation longer than 5 characters; below 80% it returns
\* what the rest of the function computes.
C17_AtLeastFourFifths ==
  \A explanation_col \in {_find_col(snapshot, EXPLANATION_COLS)} :
    ( /\ "explainability" \in DOMAIN raw
      /\ explanation_col # None )
    => \A k \in {Cardinality(C17_Explained(snapshot, explanation_col))} :
         /\ 10 * k >= 8 * NRows(snapshot) => raw["explainability"] = Fx(150000)
         /\ 10 * k < 8 * NRows(snapshot)
              => raw["explainability"] = C17_Remaining(snapshot)

\* C17, amended: 0.15 is returned when more than 80% of the rows have
\* such an explanation; at exactly 80%, as below it, the function goes on
\* to the confidence column.
C17_MoreThanFourFifths ==
  \A explanation_col \in {_find_col(snapshot, EXPLANATION_COLS)} :
    ( /\ "explainability" \in DOMAIN raw
      /\ explanation_col # None )
    => \A k \in {Cardinality(C17_Explained(snapshot, explanation_col))} :
         /\ 10 * k > 8 * NRows(snapshot) => raw["explainability"] = Fx(150000)
         /\ 10 * k <= 8 * NRows(snapshot)
              => raw["explainability"] = C17_Remaining(snapshot)

\* explainability has been computed on a dataset with exactly 80% of its
\* rows explained and a confidence column, and the score is not 0.15
C17_Witness ==
  \A explanation_col \in {_find_col(snapshot, EXPLANATION_COLS)} :
    /\ "explainability" \in DOMAIN raw
    /\ explanation_col # None
    /\ _find_col(snapshot, CONFIDENCE_COLS) # None
    /\ 10 * Cardinality(C17_Explained(snapshot, explanation_col)) = 8 * NRows(snapshot)
    /\ raw["explainability"] # Fx(150000)

\* explainability has been computed as 0.15 on a dataset with more than
\* 80% of its rows explained whose confidences would give another score
C17_WitnessAbove ==
  \A explanation_col \in {_find_col(snapshot, EXPLANATION_COLS)} :
    /\ "explainability" \in DOMAIN raw
    /\ explanation_col # None
    /\ 10 * Cardinality(C17_Explained(snapshot, explanation_col)) > 8 * NRows(snapshot)
    /\ raw["explainability"] = Fx(150000)
    /\ C17_Remaining(snapshot) # Fx(150000)

\* what compute_drift_score returns past the row floor
C19_Beyond(d) ==
  LET conf_col     == _find_col(d, CONFIDENCE_COLS)
      decision_col == _find_col(d, DECISION_COLS)
      mid          == NRows(d) \div 2
      baseline     == RowSlice(d, 1, mid)
      current      == RowSlice(d, mid + 1, NRows(d))
  IN  IF conf_col # None
      THEN PyMin(Times(_compute_psi(Scaled(Confidence(baseline, conf_col)),
                                    Scaled(Confidence(current, conf_col))), 4),
                 Fx(One))
      ELSE IF decision_col # None
      THEN PyMin(Times(Fx(Abs(DriftPositiveRate(current, decision_col).x
                                - DriftPositiveRate(baseline, decision_col).x)), 5),
                 Fx(One))
      ELSE Fx(One \div 4)

\* C19: compute_drift_score returns exactly 0.2 for every dataset of
\* fewer than 20 rows, whatever its columns and cells, and for a dataset
\* of 20 rows or more it returns what the rest of the function computes:
\* the floor branch is not taken (0.25 when neither a confidence nor a
\* decision column is resolved).
C19_RowFloor ==
  "drift" \in DOMAIN raw
    => /\ NRows(snapshot) < 20 => raw["drift"] = Fx(200000)
       /\ NRows(snapshot) >= 20 =>
            \A beyond \in {C19_Beyond(snapshot)} :
              /\ raw["drift"] = beyond
              /\ ( /\ _find_col(snapshot, CONFIDENCE_COLS) = None
                   /\ _find_col(snapshot, DECISION_COLS) = None )
                   => raw["drift"] = Fx(250000)

\* drift has been computed as 0.2 on a dataset of 19 rows with a
\* confidence or a decision column, whose halves would give another score
C19_Witness ==
  /\ "drift" \in DOMAIN raw
  /\ NRows(snapshot) = 19
  /\ \/ _find_col(snapshot, CONFIDENCE_COLS) # None
     \/ _find_col(snapshot, DECISION_COLS) # None
  /\ raw["drift"] = Fx(200000)
  /\ C19_Beyond(snapshot) # Fx(200000)

\* the positive rate of rows lo..hi of column col by the rule of
\* compute_bias_score: the trimmed, lowercased decision is one of
\* approved, yes, accept, 1, true, positive, pass
C20_BiasPositive(c) == Strip(Lower(AsStr(c))) \in positive_terms
C20_BiasRate(d, col, lo, hi) ==
  Frac(Cardinality({r \in lo..hi : C20_BiasPositive(ColumnOf(d, col)[r])}),
       hi - lo + 1)

\* C20: on the decision-rate path of compute_drift_score (20 rows or
\* more, no confidence column, a decision column resolved) a row is
\* positive iff compute_bias_score takes it as positive (same lexicon,
\* same trimming and lowercasing), so the score is the shift of the bias
\* rule's positive rate between the two halves, over 0.2, capped at 1.
C20_SamePositiveRule ==
  \A decision_col \in {_find_col(snapshot, DECISION_COLS)} :
    ( /\ "drift" \in DOMAIN raw
      /\ NRows(snapshot) >= 20
      /\ _find_col(snapshot, CONFIDENCE_COLS) = None
      /\ decision_col # None )
    => /\ \A r \in 1..NRows(snapshot) :
            \A c \in {ColumnOf(snapshot, decision_col)[r]} :
              Lower(AsStr(c)) \in drift_positive_terms <=> C20_BiasPositive(c)
       /\ \A mid \in {NRows(snapshot) \div 2} :
            raw["drift"] =
              PyMin(Times(Fx(Abs(C20_BiasRate(snapshot, decision_col, mid + 1, NRows(snapshot)).x
                                  - C20_BiasRate(snapshot, decision_col, 1, mid).x)), 5),
                    Fx(One))

\* the parseable confidences of rows lo..hi, divided by 100 when their
\* maximum exceeds 1
C21_Half(d, conf_col, lo, hi) == Scaled(Confidence(RowSlice(d, lo, hi), conf_col))

\* the 10 bucket counts of a half; bucket b is [(b-1)/10, b/10), the last
\* one closed
C21_Counts(half) == Histogram(half)

\* C21: with 20 rows or more and a confidence column resolved,
\* compute_drift_score takes the first floor(n/2) rows as baseline and the
\* other rows as current and returns min(PSI / 0.25, 1.0), PSI being
\* computed over 10 equal-width buckets of [0, 1] with empty buckets
\* counted as 0.0001: the score is 0.0 when the two halves have the same
\* relative frequency in every bucket, 1.0 whenever PSI is 0.25 or more,
\* and 1.0 in particular when the halves' values are in disjoint buckets.
C21_NormalisedPsi ==
  \A conf_col \in {_find_col(snapshot, CONFIDENCE_COLS)} :
    ( /\ "drift" \in DOMAIN raw
      /\ NRows(snapshot) >= 20
      /\ conf_col # None )
    => \A mid \in {NRows(snapshot) \div 2} :
       \A base \in {C21_Half(snapshot, conf_col, 1, mid)} :
       \A curr \in {C21_Half(snapshot, conf_col, mid + 1, NRows(snapshot))} :
       \A psi \in {_compute_psi(base, curr)} :
       \A he \in {C21_Counts(base)} :
       \A ha \in {C21_Counts(curr)} :
         /\ raw["drift"] = PyMin(Times(psi, 4), Fx(One))
         /\ ~psi.nan => /\ raw["drift"].x >= 0
                        /\ raw["drift"].x <= One
                        /\ 4 * psi.x >= One => raw["drift"].x = One
                        /\ 4 * psi.x < One => raw["drift"].x = 4 * psi.x
         /\ ( /\ Len(base.vals) > 0
              /\ Len(curr.vals) > 0
              /\ \A b \in 1..Buckets : he[b] * Len(curr.vals) = ha[b] * Len(base.vals) )
            => raw["drift"].x = 0
         /\ ( /\ \E b \in 1..Buckets : he[b] > 0
              /\ \E b \in 1..Buckets : ha[b] > 0
              /\ \A b \in 1..Buckets : he[b] = 0 \/ ha[b] = 0 )
            => raw["drift"].x = One

\* drift has been computed as 1.0 on 20 rows or more whose halves hold
\* confidences of disjoint buckets and whose PSI is above 0.25
C21_Witness ==
  \A conf_col \in {_find_col(snapshot, CONFIDENCE_COLS)} :
    /\ "drift" \in DOMAIN raw
    /\ NRows(snapshot) >= 20
    /\ conf_col # None
    /\ \A mid \in {NRows(snapshot) \div 2} :
       \A base \in {C21_Half(snapshot, conf_col, 1, mid)} :
       \A curr \in {C21_Half(snapshot, conf_col, mid + 1, NRows(snapshot))} :
         /\ \E b \in 1..Buckets : C21_Counts(base)[b] > 0
         /\ \E b \in 1..Buckets : C21_Counts(curr)[b] > 0
         /\ 4 * _compute_psi(base, curr).x > One
         /\ raw["drift"] = Fx(One)

\* drift has been computed as 0.0 on 20 rows or more whose halves hold
\* different confidences with the same bucket frequencies
C21_WitnessIdentical ==
  \A conf_col \in {_find_col(snapshot, CONFIDENCE_COLS)} :
    /\ "drift" \in DOMAIN raw
    /\ NRows(snapshot) >= 20
    /\ conf_col # None
    /\ raw["drift"] = Fx(0)
    /\ \A mid \in {NRows(snapshot) \div 2} :
         C21_Half(snapshot, conf_col, 1, mid).vals
           # C21_Half(snapshot, conf_col, mid + 1, NRows(snapshot)).vals

\* a cell that holds a number or a text that parses as one
C23_Parseable(c) ==
  \/ c.k \in {"int", "float"}
  \/ c.k = "str" /\ ParseNum(c.s).ok

\* rows lo..hi of d without the rows whose cell in column col is no number
C23_ParseableRows(d, col, lo, hi) ==
  LET j == CHOOSE i \in 1..Len(d.columns) : d.columns[i] = col
  IN  [columns |-> d.columns,
       rows    |-> SelectSeq(SubSeq(d.rows, lo, hi), LAMBDA row : C23_Parseable(row[j]))]

\* the confidences of those rows: every one of them is a number
C23_Values(d, col, lo, hi) ==
  Confidence(C23_ParseableRows(d, col, lo, hi), col)

\* the metric m has just been computed (its value does not change later)
C23_Latest(m) ==
  /\ m \in DOMAIN raw
  /\ \A i \in 1..Len(Metrics) :
       Metrics[i] = m => \A j \in (i + 1)..Len(Metrics) : Metrics[j] \notin DOMAIN raw

C23_WitnessNone ==
  \A conf_col \in {_find_col(snapshot, CONFIDENCE_COLS)} :
    /\ conf_col # None
    /\ {"bias", "hallucination", "robustness", "explainability", "drift"} \subseteq DOMAIN raw
    /\ \A r \in 1..NRows(snapshot) : ~C23_Parseable(ColumnOf(snapshot, conf_col)[r])

\* the keys of the analysis asked for
C28_Keys ==
  {"executiveSummary", "topPriority", "complianceNarrative", "recommendations",
   "readinessAssessment"}

\* C28: generate_ai_analysis raises for no seven-key score mapping; when
\* no API key is configured, or the call of the language model or the
\* parsing of its reply fails, it returns the rule-based analysis, which
\* has the five keys executiveSummary, topPriority, complianceNarrative,
\* recommendations and readinessAssessment and at most 4 recommendations,
\* none of them for a metric of risk level LOW.
C28_FallbackAnalysis ==
  analysis.called =>
    /\ DOMAIN scores = MetricSet
    /\ analysis.result.out = "return"
    /\ (~analysis.api.key \/ analysis.api.outcome \in {"error", "not_json"})
         => \A a \in {analysis.result.val} :
              /\ DOMAIN a = C28_Keys
              /\ Len(a.recommendations) <= 4
              /\ \A i \in 1..Len(a.recommendations) :
                   /\ a.recommendations[i].metric \in MetricSet
                   /\ risk_level(scores[a.recommendations[i].metric]) # "LOW"
              /\ \A i, j \in 1..Len(a.recommendations) :
                   i # j => a.recommendations[i].metric # a.recommendations[j].metric

\* the reply of the language model was no JSON and the rule-based analysis
\* has been returned for a mapping with a NaN score: fewer than four of the
\* first four items of the sort got a recommendation
C28_Witness ==
  /\ analysis.called
  /\ analysis.api.outcome = "not_json"
  /\ analysis.result.out = "return"
  /\ Len(analysis.result.val.recommendations) < 4
  /\ Len(analysis.result.val.recommendations) > 0
  /\ \E m \in MetricSet : scores[m].nan

\* the rule-based analysis has been returned with 4 recommendations for a
\* mapping of more than four metrics that are not LOW
C28_WitnessFour ==
  /\ analysis.called
  /\ ~analysis.api.key
  /\ Len(analysis.result.val.recommendations) = 4
  /\ Cardinality({m \in MetricSet : risk_level(scores[m]) # "LOW"}) > 4

---------------------------------------------------------------------------
(* C22: a computation that does not complete surfaces and persists nothing *)

\* the upload request is in compute_all_scores, which has not returned
C22_Incomplete ==
  /\ handler.kind = "upload"
  /\ handler.at = "scoring"
  /\ pc # "done"

\* C22: compute_all_scores returns all seven values or none, and a step
\* taken while the upload request's computation has not completed (a
\* computer raised, the request was cancelled) stores no file, commits no
\* Upload row and returns no scores: the response, if any, carries none
\* and is no success.
C22_NothingSurfaced ==
  [][/\ scores' # NoScores => DOMAIN scores' = MetricSet
     /\ C22_Incomplete =>
          /\ stored' = stored
          /\ uploads' = uploads
          /\ returned' = returned
          /\ response' # response =>
               /\ response'.status # 200
               /\ response'.scores = NoScores]_vars

\* reached: the classifier raised during an upload request, after four
\* partial values at most; the response is the error and the storage and
\* the table are empty
C22_Witness ==
  /\ pc = "raised"
  /\ detoxify = Failing
  /\ DOMAIN raw # {}
  /\ handler = NoRequest
  /\ response.kind = "upload"
  /\ response.status = 500
  /\ stored = {}
  /\ uploads = {}

\* reached: an upload request cancelled in the middle of the computation
C22_WitnessCancelled ==
  /\ pc = "cancelled"
  /\ DOMAIN raw # {}
  /\ DOMAIN raw # MetricSet
  /\ response.kind = "upload"
  /\ response.status = 0
  /\ stored = {}
  /\ uploads = {}

---------------------------------------------------------------------------
(* C24: no caller hands an empty dataset to compute_all_scores             *)

\* C24: whenever a request is in compute_all_scores, the dataset it was
\* called with has at least one row.
C24_NeverEmpty ==
  (handler.kind # "none" /\ handler.at = "scoring") => NRows(snapshot) >= 1

---------------------------------------------------------------------------
(* C25: manual scores are used as supplied                                 *)

C25_StoredReport == CHOOSE r \in reports : r.id = response.id

\* C25: the report generated without an upload_id holds, for every metric,
\* the supplied score when one was supplied (0.0 included) and the default
\* when none was.
C25_ManualUsedDirectly ==
  (response.kind = "generate" /\ response.status = 200 /\ response.body.upload_id = 0) =>
    \A m \in MetricSet :
      C25_StoredReport.scores[m] =
        IF Len(response.body.manual[m]) = 0 THEN DefaultScores[m]
        ELSE response.body.manual[m][1]

---------------------------------------------------------------------------
(* C26: reports and uploads are visible to their owner alone               *)

C26_Owners(table, id) == {r.user_id : r \in {x \in table : x.id = id}}

\* a request that named a row of another user
C26_Foreign(r) ==
  \/ r.kind \in {"get", "delete"} /\ C26_Owners(reports, r.id) \ {r.user} # {}
  \/ r.kind = "generate" /\ r.body.upload_id # 0
       /\ C26_Owners(uploads, r.body.upload_id) \ {r.user} # {}

\* C26: in every step that answers a request, a read or a delete succeeds
\* on a report of the requesting user alone, a listing holds exactly the
\* requesting user's reports, a delete removes nothing but the named
\* report of the requesting user, a generated report belongs to the
\* requesting user and comes from that user's own upload, and a request
\* naming another user's report or upload gets a 404 and leaves the
\* reports, the uploads and the storage as they were.
C26_OwnerOnly ==
  [][response' # response =>
       \E r \in {response'} :
         /\ (r.kind \in {"get", "delete"} /\ r.status = 200) =>
              C26_Owners(reports, r.id) = {r.user}
         /\ r.kind = "list" =>
              r.items = {x.id : x \in {y \in reports : y.user_id = r.user}}
         /\ r.kind = "delete" =>
              /\ reports' \subseteq reports
              /\ \A x \in reports \ reports' : x.user_id = r.user /\ x.id = r.id
         /\ r.kind # "delete" =>
              \A x \in reports : x \in reports'
         /\ (r.kind = "generate" /\ r.status = 200) =>
              /\ \A x \in reports' \ reports : x.user_id = r.user
              /\ r.body.upload_id # 0 => C26_Owners(uploads, r.body.upload_id) = {r.user}
         /\ C26_Foreign(r) =>
              /\ r.status = 404
              /\ reports' = reports
              /\ uploads' = uploads
              /\ stored' = stored]_vars

\* reached: a delete of another user's existing report was answered 404 and
\* the report is still there
C26_Witness ==
  /\ response.kind = "delete"
  /\ response.status = 404
  /\ \E x \in reports : x.id = response.id /\ x.user_id # response.user

\* reached: a report asked from another user's upload was answered 404
C26_WitnessUpload ==
  /\ response.kind = "generate"
  /\ response.status = 404
  /\ \E up \in uploads : up.id = response.body.upload_id /\ up.user_id # response.user
  /\ reports = {}

\* reached: a read of another user's existing report was answered 404
C26_WitnessGet ==
  /\ response.kind = "get"
  /\ response.status = 404
  /\ \E x \in reports : x.id = response.id /\ x.user_id # response.user

---------------------------------------------------------------------------
(* C27: the report of an upload holds the scores the upload returned       *)

\* the classifier was not called or could not be imported: the keyword
\* rate or the default was the toxicity score
C27_Fallback(dx) == dx.kind \in {"none", "absent"}

\* C27: a generate_report that named a successful upload, was not
\* cancelled, and met no working or failing classifier in either of the
\* two computations, succeeds and stores the seven scores the upload
\* request returned.
C27_SameScoresAsUpload ==
  (response.kind = "generate" /\ response.status # 0 /\ pc = "done"
     /\ C27_Fallback(detoxify)) =>
    \A up \in returned :
      (up.id = response.body.upload_id /\ C27_Fallback(up.detoxify)) =>
        /\ response.status = 200
        /\ \E r \in reports : r.id = response.id /\ r.scores = up.scores

=============================================================================
